---------------------------- MODULE Spec2Model ----------------------------
(***************************************************************************)
(* mqttletoad (lib/index.js): a promise-returning wrapper around an MQTT   *)
(* client that keeps per-topic listeners in an EventEmitter2 wildcard      *)
(* registry (client.toad).                                                 *)
(*                                                                         *)
(* Strings are sequences of one-character strings, so that eventify and    *)
(* String.prototype.split are computed character by character.  The        *)
(* literal segments "f", "q", "b" stand for foo, quux, bar.                *)
(***************************************************************************)
EXTENDS Naturals, Sequences, FiniteSets

(***************************************************************************)
(* Bounds of the model.                                                    *)
(***************************************************************************)
MaxCalls == 3       \* subscribe/unsubscribe/publish calls made per behaviour
MaxFailures == 1    \* requests the broker or the transport fails per behaviour
MaxErrors == 2      \* 'error' events the MqttClient emits per behaviour

(***************************************************************************)
(* Strings.                                                                *)
(***************************************************************************)
RECURSIVE replaceHash(_)
replaceHash(s) ==
  IF s = <<>> THEN <<>>
  ELSE (IF Head(s) = "#" THEN <<"*", "*">> ELSE <<Head(s)>>) \o replaceHash(Tail(s))

RECURSIVE replacePlus(_)
replacePlus(s) ==
  IF s = <<>> THEN <<>>
  ELSE (IF Head(s) = "+" THEN <<"*">> ELSE <<Head(s)>>) \o replacePlus(Tail(s))

\* topic.replace(/#/g, '**').replace(/\+/g, '*')
eventify(topic) == replacePlus(replaceHash(topic))

RECURSIVE splitAcc(_, _, _)
splitAcc(s, cur, acc) ==
  IF s = <<>> THEN Append(acc, cur)
  ELSE IF Head(s) = "/" THEN splitAcc(Tail(s), <<>>, Append(acc, cur))
  ELSE splitAcc(Tail(s), Append(cur, Head(s)), acc)

\* type.split(this.delimiter) with delimiter '/'
split(s) == splitAcc(s, <<>>, <<>>)

STAR == <<"*">>
STARSTAR == <<"*", "*">>

(***************************************************************************)
(* client.toad: the EventEmitter2 {wildcard: true, delimiter: '/'}         *)
(* listener tree.  A node is [kind, ls, kids]:                             *)
(*   kind  "none" (no _listeners key), "fn" (a single function), "arr"     *)
(*         (an array) or "null" (set to null by removeAllListeners);       *)
(*   ls    the handlers of _listeners, in order;                           *)
(*   kids  the child branches [name, node] in key insertion order, the     *)
(*         order of JavaScript's for-in.                                   *)
(***************************************************************************)
EmptyNode == [kind |-> "none", ls |-> <<>>, kids |-> <<>>]

NoResult == [h |-> <<>>, l |-> <<>>]

Cat(a, b) == [h |-> a.h \o b.h, l |-> a.l \o b.l]

HandlersOnly(a) == [h |-> a.h, l |-> <<>>]

RECURSIVE CatAll(_)
CatAll(rs) == IF rs = <<>> THEN NoResult ELSE Cat(Head(rs), CatAll(Tail(rs)))

HasKid(tree, name) == \E k \in 1..Len(tree.kids) : tree.kids[k].name = name

KidIndex(tree, name) == CHOOSE k \in 1..Len(tree.kids) : tree.kids[k].name = name

Kid(tree, name) == tree.kids[KidIndex(tree, name)].node

HasListeners(tree) == tree.ls # <<>>

\* The argument of the recursive call made for the '**' branch that holds
\* neither the next nor the current segment: {'**': {branch: xxTree[branch]}}
IsolatedTree(kid) ==
  [kind |-> "none", ls |-> <<>>,
   kids |-> << [name |-> STARSTAR,
                node |-> [kind |-> "none", ls |-> <<>>, kids |-> <<kid>>]] >>]

(***************************************************************************)
(* searchListenerTree(handlers, type, tree, i).  The result is             *)
(*   h  the handlers pushed onto `handlers`, in push order, and            *)
(*   l  the returned leaves, each as its path from the root.               *)
(* `path` is the path of `tree` (i counts from 0 as in the code).          *)
(***************************************************************************)
RECURSIVE searchListenerTree(_, _, _, _)
searchListenerTree(type, tree, i, path) ==
  LET n == Len(type)
      hasCur == i < n
      hasNext == i + 1 < n
      cur == IF hasCur THEN type[i + 1] ELSE <<"undefined">>
      nxt == IF hasNext THEN type[i + 2] ELSE <<"undefined">>
      Sub(k, j) == searchListenerTree(type, tree.kids[k].node, j,
                                      Append(path, tree.kids[k].name))
      Here == [h |-> tree.ls, l |-> <<path>>]
  IN
  IF i = n /\ HasListeners(tree) THEN Here
  ELSE IF hasCur /\ cur = STAR THEN
    CatAll([k \in 1..Len(tree.kids) |-> Sub(k, i + 1)])
  ELSE IF hasCur /\ cur = STARSTAR THEN
    LET endReached == (i + 1 = n) \/ (i + 2 = n /\ nxt = STAR)
        first == IF endReached /\ HasListeners(tree) THEN Here ELSE NoResult
        Branch(k) ==
          LET b == tree.kids[k] IN
          IF b.name = STAR \/ b.name = STARSTAR THEN
            Cat(IF HasListeners(b.node) /\ ~endReached
                  THEN [h |-> b.node.ls, l |-> <<Append(path, b.name)>>]
                  ELSE NoResult,
                Sub(k, i))
          ELSE IF hasNext /\ b.name = nxt THEN Sub(k, i + 2)
          ELSE Sub(k, i)
    IN Cat(first, CatAll([k \in 1..Len(tree.kids) |-> Branch(k)]))
  ELSE
    LET lit == IF HasKid(tree, cur)
                 THEN Sub(KidIndex(tree, cur), i + 1) ELSE NoResult
        x == IF HasKid(tree, STAR)
               THEN HandlersOnly(Sub(KidIndex(tree, STAR), i + 1)) ELSE NoResult
        xx ==
          IF ~HasKid(tree, STARSTAR) THEN NoResult
          ELSE
            LET xxTree == Kid(tree, STARSTAR)
                xxPath == Append(path, STARSTAR)
                XSub(k, j) == searchListenerTree(type, xxTree.kids[k].node, j,
                                                 Append(xxPath, xxTree.kids[k].name))
                XBranch(k) ==
                  LET b == xxTree.kids[k] IN
                  IF hasNext /\ b.name = nxt THEN XSub(k, i + 2)
                  ELSE IF b.name = cur THEN XSub(k, i + 1)
                  ELSE searchListenerTree(type, IsolatedTree(b), i + 1, <<>>)
            IN
            IF i < n THEN
              Cat([h |-> xxTree.ls, l |-> <<>>],
                  CatAll([k \in 1..Len(xxTree.kids) |-> XBranch(k)]))
            ELSE IF HasListeners(xxTree) THEN [h |-> xxTree.ls, l |-> <<>>]
            ELSE IF HasKid(xxTree, STAR) /\ HasListeners(Kid(xxTree, STAR))
              THEN [h |-> Kid(xxTree, STAR).ls, l |-> <<>>]
            ELSE NoResult
    IN Cat(lit, HandlersOnly(Cat(x, xx)))


(***************************************************************************)
(* growListenerTree(type, listener): walks down from the root, creating    *)
(* the missing branches, and adds the listener at the last one.  An event  *)
(* with two consecutive '**' is not added at all.                          *)
(***************************************************************************)
\* Mutant of AddListener: the node keeps one listener, the last one added
AddListenerReplacing(node, listener) ==
  [node EXCEPT !.kind = "fn", !.ls = <<listener>>]

AddListener(node, listener) ==
  IF ~HasListeners(node)
    THEN [node EXCEPT !.kind = "fn", !.ls = <<listener>>]
    ELSE [node EXCEPT !.kind = "arr", !.ls = Append(node.ls, listener)]

RECURSIVE growAt(_, _, _)
growAt(tree, type, listener) ==
  IF type = <<>> THEN AddListener(tree, listener)
  ELSE
    LET name == Head(type)
        grown == IF HasKid(tree, name) THEN tree
                 ELSE [tree EXCEPT !.kids = Append(tree.kids,
                                     [name |-> name, node |-> EmptyNode])]
        k == KidIndex(grown, name)
    IN [grown EXCEPT !.kids[k].node = growAt(grown.kids[k].node, Tail(type), listener)]

growListenerTree(tree, type, listener) ==
  IF \E i \in 1..(Len(type) - 1) : type[i] = STARSTAR /\ type[i + 1] = STARSTAR
    THEN tree
    ELSE growAt(tree, type, listener)

\* EventEmitter2#on(type, listener), wildcard mode
on(tree, event, listener) == growListenerTree(tree, split(event), listener)

\* The node of `tree` at `path`
RECURSIVE NodeAt(_, _)
NodeAt(tree, path) ==
  IF path = <<>> THEN tree ELSE NodeAt(Kid(tree, Head(path)), Tail(path))

\* `tree` with the node at `path` replaced by `node`
RECURSIVE PutAt(_, _, _)
PutAt(tree, path, node) ==
  IF path = <<>> THEN node
  ELSE LET k == KidIndex(tree, Head(path))
       IN [tree EXCEPT !.kids[k].node = PutAt(tree.kids[k].node, Tail(path), node)]

\* EventEmitter2#listeners(type), wildcard mode: the handlers the search collects
listeners(tree, event) == searchListenerTree(split(event), tree, 0, <<>>).h

\* Mutant of listenerCount: the count of the flat _events table, which stays
\* empty in wildcard mode
listenerCountOfEvents(tree, event) == 0

\* EventEmitter2#listenerCount(type)
listenerCount(tree, event) == Len(listeners(tree, event))

\* The leaves removeListener and removeAllListeners work on
leafs(tree, event) == searchListenerTree(split(event), tree, 0, <<>>).l

(***************************************************************************)
(* EventEmitter2#removeAllListeners(type), wildcard mode: every leaf the   *)
(* search returns gets _listeners = null.                                  *)
(***************************************************************************)
RECURSIVE nullLeafs(_, _)
nullLeafs(tree, ls) ==
  IF ls = <<>> THEN tree
  ELSE nullLeafs(PutAt(tree, Head(ls),
                       [NodeAt(tree, Head(ls)) EXCEPT !.kind = "null", !.ls = <<>>]),
                 Tail(ls))

removeAllListeners(tree, event) == nullLeafs(tree, leafs(tree, event))

(***************************************************************************)
(* EventEmitter2#removeListener(type, listener) (off), wildcard mode.      *)
(* A handler is the one to remove when it is the listener itself or has    *)
(* it as its ._origin, the property of the wrappers made by once() and     *)
(* many(); the wrappers of toadSubscribe have no such property.            *)
(***************************************************************************)
IsHandlerOf(handler, listener) ==
  \/ handler = listener
  \/ "origin" \in DOMAIN handler /\ handler.origin = listener

Position(hs, listener) ==
  IF \E i \in 1..Len(hs) : IsHandlerOf(hs[i], listener)
    THEN CHOOSE i \in 1..Len(hs) :
           /\ IsHandlerOf(hs[i], listener)
           /\ \A j \in 1..(i - 1) : ~IsHandlerOf(hs[j], listener)
    ELSE 0

Splice(hs, p) == [i \in 1..(Len(hs) - 1) |-> IF i < p THEN hs[i] ELSE hs[i + 1]]

\* recursivelyGarbageCollect(root): branches left as empty objects are deleted
RECURSIVE collect(_)
collect(tree) ==
  LET swept == [k \in 1..Len(tree.kids) |->
                  [name |-> tree.kids[k].name, node |-> collect(tree.kids[k].node)]]
      IsEmpty(nd) == nd.kind = "none" /\ nd.kids = <<>>
  IN [tree EXCEPT !.kids = SelectSeq(swept, LAMBDA b : ~IsEmpty(b.node))]

RECURSIVE offLeafs(_, _, _)
offLeafs(tree, ls, listener) ==
  IF ls = <<>> THEN collect(tree)
  ELSE
    LET leaf == NodeAt(tree, Head(ls))
        p == Position(leaf.ls, listener)
    IN
    IF leaf.kind = "arr" THEN
      IF p = 0 THEN offLeafs(tree, Tail(ls), listener)
      ELSE \* splice, delete the key when the array is empty, and return
        PutAt(tree, Head(ls),
              IF Len(leaf.ls) = 1
                THEN [leaf EXCEPT !.kind = "none", !.ls = <<>>]
                ELSE [leaf EXCEPT !.ls = Splice(leaf.ls, p)])
    ELSE IF leaf.kind = "fn" /\ p = 1 THEN
      offLeafs(PutAt(tree, Head(ls), [leaf EXCEPT !.kind = "none", !.ls = <<>>]),
               Tail(ls), listener)
    ELSE offLeafs(tree, Tail(ls), listener)

removeListener(tree, event, listener) == offLeafs(tree, leafs(tree, event), listener)

\* Mutant of emitHandlers: the matched handlers are called in the order in
\* which they were registered, as a flat list of listeners would be walked
RECURSIVE insertById(_, _)
insertById(h, sorted) ==
  IF sorted = <<>> THEN <<h>>
  ELSE IF h.id < Head(sorted).id THEN <<h>> \o sorted
  ELSE <<Head(sorted)>> \o insertById(h, Tail(sorted))

RECURSIVE sortById(_)
sortById(hs) == IF hs = <<>> THEN <<>> ELSE insertById(Head(hs), sortById(Tail(hs)))

emitHandlersInRegistrationOrder(tree, event) ==
  sortById(searchListenerTree(split(event), tree, 0, <<>>).h)

\* EventEmitter2#emit(type, ...), wildcard mode: the handlers called, in call order
emitHandlers(tree, event) == searchListenerTree(split(event), tree, 0, <<>>).h

(***************************************************************************)
(* JavaScript values.  A value is a record with its typeof in t.  An       *)
(* options object is a function from its own property names to values.     *)
(***************************************************************************)
Undefined == [t |-> "undefined", v |-> ""]
Fn(name) == [t |-> "function", v |-> name]
Str(s) == [t |-> "string", v |-> s]
Obj(name) == [t |-> "object", v |-> name]
Buf(bytes) == [t |-> "buffer", v |-> bytes]

EmptyObj == [k \in {} |-> Undefined]

\* require('./decoders') and require('./encoders'): the exported built-ins
decoders == [json |-> Fn("decoders.json"), base64 |-> Fn("decoders.base64"),
             text |-> Fn("decoders.text"), binary |-> Fn("decoders.binary")]
encoders == [json |-> Fn("encoders.json"), base64 |-> Fn("encoders.base64"),
             text |-> Fn("encoders.text"), binary |-> Fn("encoders.binary")]

DEFAULT_OPTS == [decoder |-> decoders.text, encoder |-> encoders.text]

\* builtins[name]: an own property, else a member inherited from Object.prototype
ObjectPrototype == {"constructor", "toString"}
Member(builtins, name) ==
  IF name \in DOMAIN builtins THEN builtins[name]
  ELSE IF name \in ObjectPrototype THEN Fn(name)
  ELSE Undefined

\* One source of Object.assign: every own property of source is written to target
assignFrom(target, source) ==
  [k \in DOMAIN target \cup DOMAIN source |->
     IF k \in DOMAIN source THEN source[k] ELSE target[k]]

\* The body of the forEach callback of normalizeOptions for one [prop, builtins]
normalizeProp(r, prop, builtins) ==
  IF ~r.ok \/ prop \notin DOMAIN r.opts THEN r
  ELSE IF r.opts[prop].t = "string" THEN
    LET value == Member(builtins, r.opts[prop].v) IN
    IF value = Undefined THEN [r EXCEPT !.ok = FALSE, !.error = "ReferenceError"]
    ELSE [r EXCEPT !.opts[prop] = value]
  ELSE IF r.opts[prop].t # "function"
    THEN [r EXCEPT !.ok = FALSE, !.error = "TypeError"]
  ELSE r

(***************************************************************************)
(* normalizeOptions(opts, defaults).  Object.assign(opts, defaults, opts)  *)
(* writes into opts itself: the properties of defaults are written over    *)
(* it first, and the last source is that same, already overwritten object. *)
(***************************************************************************)
normalizeOptions(opts, defaults) ==
  LET r == normalizeProp(
             normalizeProp([ok |-> TRUE, error |-> "", opts |-> opts],
                           "decoder", decoders),
             "encoder", encoders)
      overwritten == assignFrom(r.opts, defaults)
  IN IF r.ok THEN [r EXCEPT !.opts = assignFrom(overwritten, overwritten)] ELSE r

(***************************************************************************)
(* The codecs, applied.  A payload is a Buffer or a string of the bytes v; *)
(* a function the caller supplies is kept as its application.              *)
(***************************************************************************)
Apply(f, x) ==
  IF f = decoders.text THEN Str(x.v)                 \* value.toString('utf-8')
  ELSE IF f = decoders.binary THEN x                 \* value => value
  ELSE IF f = encoders.text THEN Str(x.v)            \* String(value)
  ELSE IF f = encoders.binary THEN Buf(x.v)          \* Buffer.from(value)
  ELSE [t |-> "result", of |-> f.v, arg |-> x]

(***************************************************************************)
(* The client.                                                             *)
(*   phase     "idle", "connecting" (MQTT.connect called, no connack yet), *)
(*             "connected" (patched by toadpatch) or "failed" (connect     *)
(*             rejected)                                                   *)
(*   connOpts  the options object connect() was called with                *)
(*   baseOpts  the options toadpatch closes over                           *)
(*   toad      client.toad, the listener tree                              *)
(*   calls     the subscribe/unsubscribe/publish calls made so far, each   *)
(*             with the state of the promise it returned                   *)
(*   frames    the requests handed to the MQTT client, in order            *)
(*   received  the listener invocations made for the last inbound message  *)
(*   client    the MqttClient: its connected, reconnecting, disconnecting  *)
(*             and sessionPresent properties, whether the once('connect')  *)
(*             and once('error') listeners of connect() are still          *)
(*             attached, whether the caller listens for 'error', and how   *)
(*             often toadpatch was applied to it; acks tells whether it    *)
(*             got no connack so far (0), one (1) or more (2)              *)
(*   errors    what became of each 'error' event the MqttClient emitted    *)
(*   log       what the recording listeners of the caller have pushed      *)
(***************************************************************************)
VARIABLES phase, connOpts, baseOpts, toad, calls, frames, received,
          client, errors, log

vars == <<phase, connOpts, baseOpts, toad, calls, frames, received,
          client, errors, log>>

\* Topic filters and topics
FB == <<"f", "/", "b">>
FQB == <<"f", "/", "q", "/", "b">>
FH == <<"f", "/", "#">>
FP == <<"f", "/", "+">>
PB == <<"+", "/", "b">>
FPB == <<"f", "/", "+", "/", "b">>
FQH == <<"f", "/", "q", "/", "#">>

\* A topic argument that is not a string: the value undefined (no argument)
\* or an object, written as a one-element sequence that names its typeof
NoTopic == <<"undefined">>
ObjectTopic == <<"object">>

\* Mutant of typeof: every topic argument is taken for a string
typeofUnchecked(topic) == "string"

\* typeof topic
typeof(topic) ==
  IF Len(topic) = 1 /\ topic[1] \in {"undefined", "object"} THEN topic[1] ELSE "string"

\* The listener functions of the caller
lA == Fn("lA")
lB == Fn("lB")

(***************************************************************************)
(* The arrow function registered by toadSubscribe,                         *)
(*   (message, packet) => { listener(decoder(message), packet); }          *)
(* a new function object per call (id), closing over listener and decoder. *)
(***************************************************************************)
Wrapper(id, listener, decoder) ==
  [t |-> "function", v |-> "wrapper", id |-> id,
   listener |-> listener, decoder |-> decoder]

(***************************************************************************)
(* A call: what it was called with (op, topic, listener, opts), its        *)
(* promise (st, with result for a fulfilled unsubscribe and error for a    *)
(* rejection, value for what a fulfilled subscribe resolved to), the       *)
(* number of listeners under its filter when it was made                   *)
(* (before), the index in frames of the request it made (frame, 0 for      *)
(* none), and the opts object of the caller as the call leaves it (left).  *)
(***************************************************************************)
Call(op, topic, listener, opts, st, error, before, frame) ==
  [op |-> op, topic |-> topic, listener |-> listener, opts |-> opts, st |-> st,
   result |-> FALSE, value |-> Undefined, error |-> error, before |-> before,
   frame |-> frame, left |-> opts]

\* The call has run normalizeOptions, which writes into the opts object it is
\* given: left is that object as the call leaves it
Normalized(call, r) == [call EXCEPT !.left = r.opts]

Frame(cmd, topic, payload) == [cmd |-> cmd, topic |-> topic, payload |-> payload]

\* The handlers registered under exactly this event (the _listeners of its node)
RECURSIVE registeredAt(_, _)
registeredAt(tree, type) ==
  IF type = <<>> THEN tree.ls
  ELSE IF HasKid(tree, Head(type)) THEN registeredAt(Kid(tree, Head(type)), Tail(type))
  ELSE <<>>

UnderFilter(tree, topic) == registeredAt(tree, split(eventify(topic)))

\* The MqttClient as MQTT.connect returns it, with the listeners connect()
\* attaches to it
NewClient ==
  [made |-> FALSE, opening |-> FALSE,
   connected |-> FALSE, reconnecting |-> FALSE, disconnecting |-> FALSE,
   sessionPresent |-> Undefined, connectOnce |-> TRUE, errorOnce |-> TRUE,
   callerListens |-> FALSE, patches |-> 0, acks |-> 0]

Init ==
  /\ phase = "idle"
  /\ connOpts = EmptyObj
  /\ baseOpts = EmptyObj
  /\ toad = EmptyNode
  /\ calls = <<>>
  /\ frames = <<>>
  /\ received = <<>>
  /\ client = NewClient
  /\ errors = <<>>
  /\ log = <<>>

(***************************************************************************)
(* connect(url, opts): the options are normalized against DEFAULT_OPTS     *)
(* and MQTT.connect is called; a throw of normalizeOptions rejects.        *)
(***************************************************************************)
Connect(opts) ==
  /\ phase = "idle"
  /\ connOpts' = opts
  /\ LET r == normalizeOptions(opts, DEFAULT_OPTS) IN
       IF r.ok THEN
         /\ phase' = "connecting" /\ baseOpts' = r.opts
         /\ client' = [client EXCEPT !.made = TRUE, !.opening = TRUE]
       ELSE phase' = "failed" /\ UNCHANGED <<baseOpts, client>>
  /\ UNCHANGED <<toad, calls, frames, received>>
  /\ UNCHANGED <<errors, log>>

\* Boolean(value)
True == [t |-> "boolean", v |-> "true"]
False == [t |-> "boolean", v |-> "false"]
Boolean(value) == IF value = True THEN True ELSE False

\* What MqttClient does itself when the connack arrives, before it emits
\* 'connect'
Acknowledged(c) ==
  [c EXCEPT !.opening = FALSE, !.connected = TRUE, !.reconnecting = FALSE,
            !.acks = IF c.acks = 0 THEN 1 ELSE 2]

\* Mutant of OnConnect: sessionPresent is assigned on the first 'connect' only
OnConnectOnce(c, connack) ==
  IF c.connectOnce
    THEN [c EXCEPT !.sessionPresent = Boolean(connack.sessionPresent)]
    ELSE c

\* .on('connect', function(connack) {...}): every 'connect' event
OnConnect(c, connack) ==
  [c EXCEPT !.sessionPresent = Boolean(connack.sessionPresent)]

\* Mutant of FirstConnect: the listener stays attached, as with on('connect')
EveryConnect(c) == TRUE

\* .once('connect', ...): the listener is still attached
FirstConnect(c) == c.connectOnce

(***************************************************************************)
(* A connack arrives for the stream the MqttClient has opened (the first   *)
(* one, or one opened to reconnect) and 'connect' is emitted: sessionPresent*)
(* is assigned, and the once-listener, if still attached, runs             *)
(* resolve(toadpatch(this, opts)).  resolve leaves a promise that was       *)
(* rejected before as it is.                                               *)
(***************************************************************************)
ConnAckWith(connack) ==
  /\ client.made /\ client.opening
  /\ LET c == OnConnect(Acknowledged(client), connack) IN
     IF FirstConnect(client) THEN
       /\ client' = [c EXCEPT !.connectOnce = FALSE, !.patches = c.patches + 1]
       /\ toad' = EmptyNode
       /\ phase' = IF phase = "connecting" THEN "connected" ELSE phase
     ELSE
       /\ client' = c
       /\ UNCHANGED <<toad, phase>>
  /\ UNCHANGED <<connOpts, baseOpts, calls, frames, received, errors, log>>

\* The first 'connect' event, for the connack of a clean session
ConnAck == ConnAckWith([sessionPresent |-> False])

(***************************************************************************)
(* patch(client, baseOpts) on a connected MqttClient: toadpatch closes     *)
(* over baseOpts as given ({} when omitted), without normalizing it.       *)
(***************************************************************************)
Patch(opts) ==
  /\ phase = "idle"
  /\ phase' = "connected"
  /\ baseOpts' = opts
  /\ toad' = EmptyNode
  /\ client' = [client EXCEPT !.made = TRUE, !.connected = TRUE, !.connectOnce = FALSE,
                               !.errorOnce = FALSE, !.patches = 1]
  /\ UNCHANGED <<connOpts, calls, frames, received>>
  /\ UNCHANGED <<errors, log>>

\* A QoS level, and the level a subscribe request asks for: the qos option,
\* else 0
Qos(level) == [t |-> "number", v |-> level]
Level(qos) == IF qos.v = "2" THEN 2 ELSE IF qos.v = "1" THEN 1 ELSE 0
RequestedQos(opts) == IF "qos" \in DOMAIN opts THEN opts["qos"] ELSE Qos("0")

(***************************************************************************)
(* client.subscribe(topic, listener, opts) up to its await: the type       *)
(* check, normalizeOptions, toad.on of the wrapper, and the MQTT           *)
(* subscribe request.                                                      *)
(***************************************************************************)
Subscribe(topic, listener, opts) ==
  /\ phase = "connected"
  /\ Len(calls) < MaxCalls
  /\ LET r == normalizeOptions(opts, baseOpts)
         id == Len(calls) + 1
         before == Len(UnderFilter(toad, topic))
     IN
     IF typeof(topic) # "string" \/ listener.t # "function" THEN
       /\ calls' = Append(calls, Call("subscribe", topic, listener, opts, "rejected",
                                      "TypeError", before, 0))
       /\ UNCHANGED <<toad, frames>>
     ELSE IF ~r.ok THEN
       /\ calls' = Append(calls, Normalized(Call("subscribe", topic, listener, opts, "rejected",
                                      r.error, before, 0), r))
       /\ UNCHANGED <<toad, frames>>
     ELSE
       /\ toad' = on(toad, eventify(topic),
                     Wrapper(id, listener,
                             IF "decoder" \in DOMAIN r.opts
                               THEN r.opts["decoder"] ELSE Undefined))
       /\ frames' = Append(frames, Frame("subscribe", topic, RequestedQos(r.opts)))
       /\ calls' = Append(calls, Normalized(Call("subscribe", topic, listener, opts, "pending",
                                      "", before, Len(frames) + 1), r))
  /\ UNCHANGED <<phase, connOpts, baseOpts, received>>
  /\ UNCHANGED <<client, errors, log>>

\* The requests that failed so far
Failures == Cardinality({i \in 1..Len(calls) : calls[i].error = "Error"})

\* Mutant of Granted: the subscription as it was requested
GrantedAsRequested(request, granted) ==
  <<[topic |-> request.topic, qos |-> request.payload]>>

\* What the promisified MqttClient#subscribe resolves to: the subscriptions
\* of the request, each with the QoS the suback grants it
Granted(request, granted) == <<[topic |-> request.topic, qos |-> granted]>>

\* Array.prototype.shift: the first element
shift(array) == Head(array)

\* The suback for the subscribe request arrives, granting a QoS not above the
\* requested one: return result.shift()
SubGranted(i, granted) ==
  /\ i \in 1..Len(calls)
  /\ calls[i].op = "subscribe" /\ calls[i].st = "pending"
  /\ Level(granted) <= Level(frames[calls[i].frame].payload)
  /\ calls' = [calls EXCEPT ![i].st = "fulfilled", ![i].result = TRUE,
                            ![i].value = shift(Granted(frames[calls[i].frame], granted))]
  /\ UNCHANGED <<phase, connOpts, baseOpts, toad, frames, received>>
  /\ UNCHANGED <<client, errors, log>>

\* The subscribe request succeeds with the QoS it asked for
SubAck(i) ==
  /\ i \in 1..Len(calls)
  /\ calls[i].op = "subscribe" /\ calls[i].st = "pending"
  /\ SubGranted(i, frames[calls[i].frame].payload)

\* The subscribe request fails: toad.removeListener(event, listener); throw err
SubFail(i) ==
  /\ i \in 1..Len(calls)
  /\ calls[i].op = "subscribe" /\ calls[i].st = "pending"
  /\ Failures < MaxFailures
  /\ toad' = removeListener(toad, eventify(calls[i].topic), calls[i].listener)
  /\ calls' = [calls EXCEPT ![i].st = "rejected", ![i].error = "Error"]
  /\ UNCHANGED <<phase, connOpts, baseOpts, frames, received>>
  /\ UNCHANGED <<client, errors, log>>

(***************************************************************************)
(* client.unsubscribe(topic, listener) up to its await, or to its return   *)
(* of false.                                                               *)
(***************************************************************************)
Unsubscribe(topic, listener) ==
  /\ phase = "connected"
  /\ Len(calls) < MaxCalls
  /\ LET event == eventify(topic)
         removed == IF listener = Undefined
                      THEN removeAllListeners(toad, event)
                      ELSE removeListener(toad, event, listener)
         before == Len(UnderFilter(toad, topic))
     IN
     /\ toad' = removed
     /\ IF listenerCount(removed, event) = 0 THEN
          /\ frames' = Append(frames, Frame("unsubscribe", topic, Undefined))
          /\ calls' = Append(calls, Call("unsubscribe", topic, listener, EmptyObj,
                                         "pending", "", before, Len(frames) + 1))
        ELSE
          /\ calls' = Append(calls, Call("unsubscribe", topic, listener, EmptyObj,
                                         "fulfilled", "", before, 0))
          /\ UNCHANGED frames
  /\ UNCHANGED <<phase, connOpts, baseOpts, received>>
  /\ UNCHANGED <<client, errors, log>>

\* The unsubscribe request succeeds: return true
UnsubAck(i) ==
  /\ i \in 1..Len(calls)
  /\ calls[i].op = "unsubscribe" /\ calls[i].st = "pending"
  /\ calls' = [calls EXCEPT ![i].st = "fulfilled", ![i].result = TRUE]
  /\ UNCHANGED <<phase, connOpts, baseOpts, toad, frames, received>>
  /\ UNCHANGED <<client, errors, log>>

\* Mutant of leftByUnsubscribe: the failed call registers its listener again
restoredByUnsubscribe(tree, call) ==
  on(tree, eventify(call.topic), Wrapper(call.frame, call.listener, Undefined))

\* The registry when the await of toadUnsubscribe throws: the function has no
\* try around it, so nothing of it runs any more and the removal stands
leftByUnsubscribe(tree, call) == tree

\* The unsubscribe request fails: the await throws
UnsubFail(i) ==
  /\ i \in 1..Len(calls)
  /\ calls[i].op = "unsubscribe" /\ calls[i].st = "pending"
  /\ Failures < MaxFailures
  /\ calls' = [calls EXCEPT ![i].st = "rejected", ![i].error = "Error"]
  /\ toad' = leftByUnsubscribe(toad, calls[i])
  /\ UNCHANGED <<phase, connOpts, baseOpts, frames, received>>
  /\ UNCHANGED <<client, errors, log>>

\* encoder(message) throws: of the built-in encoders here, Buffer.from does
\* for a value that is neither a string nor a Buffer (nor array-like)
EncoderRaises(encoder, message) ==
  encoder = encoders.binary /\ message.t \notin {"string", "buffer"}

(***************************************************************************)
(* client.publish(topic, message, opts) up to the MQTT publish request.    *)
(***************************************************************************)
Publish(topic, message, opts) ==
  /\ phase = "connected"
  /\ Len(calls) < MaxCalls
  /\ LET r == normalizeOptions(opts, baseOpts) IN
     IF ~r.ok THEN
       /\ calls' = Append(calls, Normalized(Call("publish", topic, Undefined, opts, "rejected",
                                      r.error, 0, 0), r))
       /\ UNCHANGED frames
     ELSE IF \/ "encoder" \notin DOMAIN r.opts
             \/ r.opts["encoder"].t # "function"
             \/ EncoderRaises(r.opts["encoder"], message) THEN
       \* encoder(message) with an encoder that is not a function, or that throws
       /\ calls' = Append(calls, Normalized(Call("publish", topic, Undefined, opts, "rejected",
                                      "TypeError", 0, 0), r))
       /\ UNCHANGED frames
     ELSE
       /\ frames' = Append(frames, Frame("publish", topic,
                                         Apply(r.opts["encoder"], message)))
       /\ calls' = Append(calls, Normalized(Call("publish", topic, Undefined, opts, "pending",
                                      "", 0, Len(frames) + 1), r))
  /\ UNCHANGED <<phase, connOpts, baseOpts, toad, received>>
  /\ UNCHANGED <<client, errors, log>>

\* The publish request completes
PubAck(i) ==
  /\ i \in 1..Len(calls)
  /\ calls[i].op = "publish" /\ calls[i].st = "pending"
  /\ calls' = [calls EXCEPT ![i].st = "fulfilled", ![i].result = TRUE]
  /\ UNCHANGED <<phase, connOpts, baseOpts, toad, frames, received>>
  /\ UNCHANGED <<client, errors, log>>

(***************************************************************************)
(* The 'message' handler: this.toad.emit(eventify(topic), message, packet) *)
(* calls the matched wrappers in order, and each calls                     *)
(* listener(decoder(message), packet).                                     *)
(***************************************************************************)
\* A listener function of the caller whose body throws
lT == Fn("lT")

\* A listener function of the caller that pushes its message onto an array
lR == Fn("lR")

\* JSON.parse(text) returns (else it throws a SyntaxError)
IsJSON(text) == text \in {"1", "true", "null"}

\* decoder(message) throws: a decoder that is not a function cannot be
\* called (TypeError), and of the built-in decoders and the payloads sent
\* here, only JSON.parse throws
DecoderRaises(decoder, message) ==
  \/ decoder.t # "function"
  \/ decoder = decoders.json /\ ~IsJSON(message.v)

\* One call of a wrapper: the listener is called when the decoder returned,
\* and what either of them throws leaves the wrapper, which catches nothing
Invocation(w, message) ==
  [listener |-> w.listener, id |-> w.id,
   called |-> ~DecoderRaises(w.decoder, message),
   arg |-> IF DecoderRaises(w.decoder, message)
             THEN Undefined ELSE Apply(w.decoder, message),
   threw |-> DecoderRaises(w.decoder, message) \/ w.listener = lT]

\* The loop of emit over the handlers: it catches nothing, so the first
\* wrapper that throws ends it
RECURSIVE upToThrow(_)
upToThrow(invs) ==
  IF invs = <<>> THEN <<>>
  ELSE IF Head(invs).threw THEN <<Head(invs)>>
  ELSE <<Head(invs)>> \o upToThrow(Tail(invs))

Invoked(tree, topic, message) ==
  LET hs == emitHandlers(tree, eventify(topic))
  IN upToThrow([k \in 1..Len(hs) |-> Invocation(hs[k], message)])

\* What the wrapper threw leaves emit and the 'message' handler, into the
\* MQTT client that emitted 'message'
Uncaught(invs) == invs # <<>> /\ invs[Len(invs)].threw

\* Mutant of Pushed: a recording listener puts its entry in front
PushedFirst(entries, invs) ==
  [k \in 1..Len(invs) |-> invs[Len(invs) + 1 - k]] \o entries

\* The log after the listeners called for one message have run: a recording
\* listener pushes the message it was called with, the others push nothing
Pushed(entries, invs) == entries \o invs

Recorded(invs) ==
  LET rs == SelectSeq(invs, LAMBDA inv : inv.called /\ inv.listener = lR)
  IN [k \in 1..Len(rs) |-> [id |-> rs[k].id, arg |-> rs[k].arg]]

Message(topic, message) ==
  /\ phase = "connected"
  /\ received' = Invoked(toad, topic, message)
  /\ log' = Pushed(log, Recorded(Invoked(toad, topic, message)))
  /\ UNCHANGED <<phase, connOpts, baseOpts, toad, calls, frames, client, errors>>

(***************************************************************************)
(* The MqttClient emits 'error'.  The listeners attached to it are the    *)
(* once('error', reject) of connect(), until its first call, and what the  *)
(* caller has attached.  reject leaves a settled promise as it is; an      *)
(* 'error' event without any listener is thrown by emit.                   *)
(***************************************************************************)
TransportError ==
  /\ client.made
  /\ Len(errors) < MaxErrors
  /\ errors' = Append(errors,
       [settled |-> phase # "connecting",
        resolved |-> phase = "connected",
        rejects |-> client.errorOnce /\ phase = "connecting",
        notified |-> client.callerListens,
        thrown |-> ~client.errorOnce /\ ~client.callerListens])
  /\ client' = [client EXCEPT !.errorOnce = FALSE]
  /\ phase' = IF client.errorOnce /\ phase = "connecting" THEN "failed" ELSE phase
  /\ UNCHANGED <<connOpts, baseOpts, toad, calls, frames, received, log>>

\* The caller attaches a listener for 'error' to the client connect() gave it
ListenForErrors ==
  /\ phase = "connected"
  /\ ~client.callerListens
  /\ client' = [client EXCEPT !.callerListens = TRUE]
  /\ UNCHANGED <<phase, connOpts, baseOpts, toad, calls, frames, received, errors, log>>

\* The stream closes while connected and nobody asked for it: MqttClient
\* goes offline and sets out to reconnect
LinkLost ==
  /\ client.connected /\ ~client.disconnecting
  /\ client' = [client EXCEPT !.connected = FALSE, !.reconnecting = TRUE,
                               !.opening = TRUE]
  /\ UNCHANGED <<phase, connOpts, baseOpts, toad, calls, frames, received, errors, log>>

\* Mutant of IsConnected: end() does not look at this.connected
IsConnectedAlways(c) == TRUE

\* if (this.connected)
IsConnected(c) == c.connected

(***************************************************************************)
(* client.end(force) up to its await, or to its return when the client is *)
(* not connected.  MqttClient#end, called while a disconnect is under way, *)
(* returns without ever calling back; otherwise it stops reconnecting and  *)
(* closes the stream.                                                      *)
(***************************************************************************)
End ==
  /\ phase = "connected"
  /\ Len(calls) < MaxCalls
  /\ IF IsConnected(client) THEN
       IF client.disconnecting THEN
         /\ calls' = Append(calls, Call("end", <<>>, Undefined, EmptyObj, "pending",
                                        "", 0, 0))
         /\ UNCHANGED <<client, frames>>
       ELSE
         /\ client' = [client EXCEPT !.disconnecting = TRUE, !.reconnecting = FALSE,
                                      !.opening = FALSE]
         /\ frames' = Append(frames, Frame("disconnect", <<>>, Undefined))
         /\ calls' = Append(calls, Call("end", <<>>, Undefined, EmptyObj, "pending",
                                        "", 0, Len(frames) + 1))
     ELSE
       /\ calls' = Append(calls, Call("end", <<>>, Undefined, EmptyObj, "fulfilled",
                                      "", 0, 0))
       /\ UNCHANGED <<client, frames>>
  /\ UNCHANGED <<phase, connOpts, baseOpts, toad, received, errors, log>>

\* The stream has closed and MqttClient#end calls back:
\* this.disconnecting = false
EndDone(i) ==
  /\ i \in 1..Len(calls)
  /\ calls[i].op = "end" /\ calls[i].st = "pending" /\ calls[i].frame > 0
  /\ client' = [client EXCEPT !.connected = FALSE, !.disconnecting = FALSE]
  /\ calls' = [calls EXCEPT ![i].st = "fulfilled"]
  /\ UNCHANGED <<phase, connOpts, baseOpts, toad, frames, received, errors, log>>

(***************************************************************************)
(* Subscription life cycle: two filters, one matching the other, one       *)
(* listener function, default options.                                     *)
(***************************************************************************)
Filters == {FB, FH}
Topics == {FB}
Listeners == {lA}
Payload == Buf("m")

Next ==
  \/ Connect(EmptyObj)
  \/ ConnAck
  \/ \E f \in Filters, l \in Listeners : Subscribe(f, l, EmptyObj)
  \/ \E i \in 1..MaxCalls : SubAck(i)
  \/ \E i \in 1..MaxCalls : SubFail(i)
  \/ \E f \in Filters, l \in Listeners \cup {Undefined} : Unsubscribe(f, l)
  \/ \E i \in 1..MaxCalls : UnsubAck(i)
  \/ \E i \in 1..MaxCalls : UnsubFail(i)
  \/ \E t \in Topics : Message(t, Payload)

Spec == Init /\ [][Next]_vars

(***************************************************************************)
(* Shared filters: two listener functions on the same filters, every       *)
(* request acknowledged.                                                   *)
(***************************************************************************)
SharedListeners == {lA, lB}

NextShared ==
  \/ Connect(EmptyObj)
  \/ ConnAck
  \/ \E f \in Filters, l \in SharedListeners : Subscribe(f, l, EmptyObj)
  \/ \E i \in 1..MaxCalls : SubAck(i)
  \/ \E f \in Filters, l \in SharedListeners \cup {Undefined} : Unsubscribe(f, l)
  \/ \E i \in 1..MaxCalls : UnsubAck(i)
  \/ \E t \in Topics : Message(t, Payload)

SpecShared == Init /\ [][NextShared]_vars

(***************************************************************************)
(* Codecs: one filter and one listener, with decoder and encoder options   *)
(* given to connect(), subscribe() and publish().                          *)
(***************************************************************************)
ConnectOptions ==
  { EmptyObj,
    [decoder |-> Fn("Dconn"), encoder |-> Fn("Econn")],
    [decoder |-> Str("binary"), encoder |-> Str("binary")] }
SubscribeOptions == { EmptyObj, [decoder |-> Fn("Dcall")], [decoder |-> Str("binary")] }
PublishOptions == { EmptyObj, [encoder |-> Fn("Ecall")], [encoder |-> Str("binary")] }
Outbound == Str("m")

NextCodec ==
  \/ \E o \in ConnectOptions : Connect(o)
  \/ ConnAck
  \/ \E o \in SubscribeOptions : Subscribe(FB, lA, o)
  \/ \E i \in 1..MaxCalls : SubAck(i)
  \/ \E o \in PublishOptions : Publish(FB, Outbound, o)
  \/ \E i \in 1..MaxCalls : PubAck(i)
  \/ Message(FB, Payload)

SpecCodec == Init /\ [][NextCodec]_vars

(***************************************************************************)
(* Dispatch order: filters of differing specificity matching one topic.    *)
(***************************************************************************)
OrderFilters == {FB, FQB, FPB, FH, FQH, PB, FP}
OrderTopics == {FQB, FB}

NextOrder ==
  \/ Connect(EmptyObj)
  \/ ConnAck
  \/ \E f \in OrderFilters : Subscribe(f, lA, EmptyObj)
  \/ \E i \in 1..MaxCalls : SubAck(i)
  \/ \E t \in OrderTopics : Message(t, Payload)

SpecOrder == Init /\ [][NextOrder]_vars

(***************************************************************************)
(* Matching: filters with '+' and '#' against topics of one, two and three *)
(* segments.                                                               *)
(***************************************************************************)
F == <<"f">>
FBQ == <<"f", "/", "b", "/", "q">>
FBH == <<"f", "/", "b", "/", "#">>

MatchFilters == {FB, FP, FH, FBH}
MatchTopics == {F, FB, FBQ}

NextMatch ==
  \/ Connect(EmptyObj)
  \/ ConnAck
  \/ \E f \in MatchFilters : Subscribe(f, lA, EmptyObj)
  \/ \E i \in 1..MaxCalls : SubAck(i)
  \/ \E t \in MatchTopics : Message(t, Payload)

SpecMatch == Init /\ [][NextMatch]_vars

(***************************************************************************)
(* Failing listeners: a listener that throws and one that does not, on     *)
(* filters that match one topic.                                           *)
(***************************************************************************)
FailingListeners == {lA, lT}

NextFailing ==
  \/ Connect(EmptyObj)
  \/ ConnAck
  \/ \E f \in Filters, l \in FailingListeners : Subscribe(f, l, EmptyObj)
  \/ \E i \in 1..MaxCalls : SubAck(i)
  \/ \E t \in Topics : Message(t, Payload)

SpecFailing == Init /\ [][NextFailing]_vars

(***************************************************************************)
(* Invalid parameters: subscribe with a topic that is missing, not a       *)
(* string or empty, or with a listener that is missing or not a function.  *)
(***************************************************************************)
EmptyTopic == <<>>
TopicArguments == {FB, NoTopic, ObjectTopic, EmptyTopic}
ListenerArguments == {lA, Undefined, Obj("{}")}

NextInvalid ==
  \/ Connect(EmptyObj)
  \/ ConnAck
  \/ \E f \in TopicArguments, l \in ListenerArguments : Subscribe(f, l, EmptyObj)
  \/ \E i \in 1..MaxCalls : SubAck(i)
  \/ \E t \in Topics : Message(t, Payload)

SpecInvalid == Init /\ [][NextInvalid]_vars

(***************************************************************************)
(* Codec options that name no built-in, or are neither a name nor a        *)
(* function, given to subscribe() and publish().                           *)
(***************************************************************************)
CodecArguments == {Str("bogus"), Str("constructor"), Obj("Date"), Str("binary")}
DecoderOptions == {EmptyObj} \cup {[decoder |-> c] : c \in CodecArguments}
EncoderOptions == {EmptyObj} \cup {[encoder |-> c] : c \in CodecArguments}

NextNames ==
  \/ Connect(EmptyObj)
  \/ ConnAck
  \/ \E o \in DecoderOptions : Subscribe(FB, lA, o)
  \/ \E i \in 1..MaxCalls : SubAck(i)
  \/ \E o \in EncoderOptions : Publish(FB, Outbound, o)
  \/ \E i \in 1..MaxCalls : PubAck(i)
  \/ Message(FB, Payload)

SpecNames == Init /\ [][NextNames]_vars

(***************************************************************************)
(* A client patched with patch(): without baseOpts, or with both codecs.   *)
(***************************************************************************)
PatchOptions == {EmptyObj, [decoder |-> decoders.binary, encoder |-> encoders.binary]}

NextPatch ==
  \/ \E o \in PatchOptions : Patch(o)
  \/ \E f \in Filters : Subscribe(f, lA, EmptyObj)
  \/ \E i \in 1..MaxCalls : SubAck(i)
  \/ Publish(FB, Outbound, EmptyObj)
  \/ \E i \in 1..MaxCalls : PubAck(i)
  \/ Message(FB, Payload)

SpecPatch == Init /\ [][NextPatch]_vars

(***************************************************************************)
(* The connection: acknowledgements with either session-present flag,     *)
(* errors, link losses and end(), with one subscription.                   *)
(***************************************************************************)
Connacks == {[sessionPresent |-> True], [sessionPresent |-> False]}

NextLink ==
  \/ Connect(EmptyObj)
  \/ \E connack \in Connacks : ConnAckWith(connack)
  \/ TransportError
  \/ ListenForErrors
  \/ LinkLost
  \/ End
  \/ \E i \in 1..MaxCalls : EndDone(i)
  \/ Subscribe(FB, lA, EmptyObj)
  \/ \E i \in 1..MaxCalls : SubAck(i)

SpecLink == Init /\ [][NextLink]_vars

(***************************************************************************)
(* Messages to publish: a string and a Date object, on a client made by   *)
(* connect() or by patch() with the binary encoder.                        *)
(***************************************************************************)
DateMessage == Obj("Date")
OutboundMessages == {Outbound, DateMessage}
BinaryOptions == [decoder |-> decoders.binary, encoder |-> encoders.binary]

NextMessages ==
  \/ Connect(EmptyObj)
  \/ ConnAck
  \/ Patch(BinaryOptions)
  \/ \E m \in OutboundMessages : Publish(FB, m, EmptyObj)
  \/ \E i \in 1..MaxCalls : PubAck(i)

SpecMessages == Init /\ [][NextMessages]_vars

(***************************************************************************)
(* Quality of service: subscribe with and without a qos option, and a     *)
(* broker that grants the requested QoS or a lower one.                    *)
(***************************************************************************)
QosLevels == {Qos("0"), Qos("1"), Qos("2")}
QosOptions == {EmptyObj} \cup {[qos |-> q] : q \in QosLevels}

NextQos ==
  \/ Connect(EmptyObj)
  \/ ConnAck
  \/ \E f \in Filters, o \in QosOptions : Subscribe(f, lA, o)
  \/ \E i \in 1..MaxCalls, g \in QosLevels : SubGranted(i, g)

SpecQos == Init /\ [][NextQos]_vars

(***************************************************************************)
(* A broker that acknowledges the connection and then no request.  The    *)
(* connection is made and acknowledged eventually; nothing in subscribe,   *)
(* unsubscribe or the MQTT client's requests is on a timer, so no step is  *)
(* taken for a request that is not acknowledged.                           *)
(***************************************************************************)
NextSilent ==
  \/ Connect(EmptyObj)
  \/ ConnAck
  \/ \E f \in Filters : Subscribe(f, lA, EmptyObj)
  \/ \E f \in Filters, l \in {lA, Undefined} : Unsubscribe(f, l)
  \/ \E t \in Topics : Message(t, Payload)

SpecSilent ==
  Init /\ [][NextSilent]_vars /\ WF_vars(Connect(EmptyObj)) /\ WF_vars(ConnAck)

(***************************************************************************)
(* Messages in sequence: recording listeners, and two messages the broker  *)
(* delivers in any order and number.  The 'message' handler and emit run   *)
(* to completion for one message before the MQTT client hands over the     *)
(* next.                                                                   *)
(***************************************************************************)
MaxLog == 3

SequenceFilters == {FB, FH}
SequenceTopics == {FB, FQB}
SequenceMessages == {Buf("1"), Buf("2")}

NextSequence ==
  \/ Connect(EmptyObj)
  \/ ConnAck
  \/ \E f \in SequenceFilters : Subscribe(f, lR, EmptyObj)
  \/ \E i \in 1..MaxCalls : SubAck(i)
  \/ \E t \in SequenceTopics, m \in SequenceMessages :
       Len(log) < MaxLog /\ Message(t, m)

SpecSequence == Init /\ [][NextSequence]_vars

(***************************************************************************)
(* Ending a connection: the life of the link as in SpecLink, where the     *)
(* stream that MqttClient#end closes does close, so that the callback of   *)
(* an end request that has one is called eventually.                       *)
(***************************************************************************)
SpecEnding ==
  Init /\ [][NextLink]_vars /\ WF_vars(\E i \in 1..MaxCalls : EndDone(i))

(***************************************************************************)
(* An MQTT broker, as far as inbound messages need it: it holds the        *)
(* subscriptions requested of it and forwards a message to the client      *)
(* when one of them matches the topic under the rules of MQTT, where '*'   *)
(* is a character like any other.  (The broker of the test harness sends   *)
(* back every message published, whatever the subscriptions.)              *)
(***************************************************************************)
\* The broker holds a subscription for filter f: of the subscribe and
\* unsubscribe requests for f it has accepted, the last is a subscribe
BrokerHolds(f) ==
  \E k \in 1..Len(frames) :
    /\ frames[k].cmd = "subscribe" /\ frames[k].topic = f
    /\ \A j \in (k + 1)..Len(frames) :
         ~(frames[j].cmd = "unsubscribe" /\ frames[j].topic = f)

\* MQTT matching of a topic filter against a topic, segment by segment:
\* a literal equals its segment, '+' takes one segment, a final '#' the rest
RECURSIVE matchSegs(_, _)
matchSegs(f, t) ==
  IF f = <<>> THEN t = <<>>
  ELSE IF Head(f) = <<"#">> THEN Len(f) = 1
  ELSE IF t = <<>> THEN FALSE
  ELSE (Head(f) = <<"+">> \/ Head(f) = Head(t)) /\ matchSegs(Tail(f), Tail(t))

matches(f, t) == matchSegs(split(f), split(t))

\* The broker forwards messages on this topic to the client
Forwards(topic) ==
  \E k \in 1..Len(frames) :
    BrokerHolds(frames[k].topic) /\ matches(frames[k].topic, topic)

\* The broker forwards the message to the client
Forwarded(topic, message) == Forwards(topic) /\ Message(topic, message)

(***************************************************************************)
(* Topics with '*': a filter and a topic whose second segment is the       *)
(* character '*', beside filters with '+' and '#'.                         *)
(***************************************************************************)
FS == <<"f", "/", "*">>

StarFilters == {FB, FS, FP, FH}
StarTopics == {FB, FS}

NextStar ==
  \/ Connect(EmptyObj)
  \/ ConnAck
  \/ \E f \in StarFilters : Subscribe(f, lA, EmptyObj)
  \/ \E i \in 1..MaxCalls : SubAck(i)
  \/ \E t \in StarTopics : Forwarded(t, Payload)

SpecStar == Init /\ [][NextStar]_vars

(***************************************************************************)
(* The codecs, computed.  Here a string is [t |-> "string", v |-> its code *)
(* points] and a Buffer is [t |-> "buffer", v |-> its bytes]; a JSON value *)
(* is null, true, a number, a string, an array [t |-> "array", v |-> its   *)
(* elements] or an object [t |-> "object", v |-> its members [k, val] in   *)
(* order].  Texts are sequences of code points.                            *)
(***************************************************************************)
Null == [t |-> "null", v |-> <<>>]
Num(n) == [t |-> "number", v |-> <<n>>]
Arr(elements) == [t |-> "array", v |-> elements]
Members(members) == [t |-> "object", v |-> members]
SyntaxError == [t |-> "thrown", v |-> <<>>]

\* Buffer.from(string) and the payload of an MQTT publish: the UTF-8 bytes
\* of the code points (below U+0800: one or two bytes each)
RECURSIVE utf8Write(_)
utf8Write(cs) ==
  IF cs = <<>> THEN <<>>
  ELSE (IF Head(cs) < 128 THEN <<Head(cs)>>
        ELSE <<192 + (Head(cs) \div 64), 128 + (Head(cs) % 64)>>)
       \o utf8Write(Tail(cs))

\* buf.toString('utf-8'): one- and two-byte sequences are decoded, any other
\* byte becomes U+FFFD (the three- and four-byte sequences are left out: no
\* lead byte of one is followed by a continuation byte in the values below)
RECURSIVE utf8Slice(_)
utf8Slice(bs) ==
  IF bs = <<>> THEN <<>>
  ELSE IF Head(bs) < 128 THEN <<Head(bs)>> \o utf8Slice(Tail(bs))
  ELSE IF /\ Head(bs) >= 194 /\ Head(bs) < 224
          /\ Len(bs) >= 2 /\ bs[2] >= 128 /\ bs[2] < 192
    THEN <<(Head(bs) - 192) * 64 + (bs[2] - 128)>> \o utf8Slice(SubSeq(bs, 3, Len(bs)))
  ELSE <<65533>> \o utf8Slice(Tail(bs))

\* buf.toString('binary'): each byte is the code point of its character
latin1Slice(bs) == [k \in 1..Len(bs) |-> bs[k]]

\* The base64 alphabet: A-Z, a-z, 0-9, '+', '/'
base64Char(i) ==
  IF i < 26 THEN 65 + i
  ELSE IF i < 52 THEN 71 + i
  ELSE IF i < 62 THEN i - 4
  ELSE IF i = 62 THEN 43 ELSE 47

isBase64Char(c) ==
  \/ c >= 65 /\ c <= 90
  \/ c >= 97 /\ c <= 122
  \/ c >= 48 /\ c <= 57
  \/ c \in {43, 47}

base64Index(c) ==
  IF c >= 65 /\ c <= 90 THEN c - 65
  ELSE IF c >= 97 /\ c <= 122 THEN c - 71
  ELSE IF c >= 48 /\ c <= 57 THEN c + 4
  ELSE IF c = 43 THEN 62 ELSE 63

\* buf.toString('base64'): three bytes become four characters, a last group
\* of one or two bytes is padded with '='
RECURSIVE base64Slice(_)
base64Slice(bs) ==
  IF bs = <<>> THEN <<>>
  ELSE IF Len(bs) = 1 THEN
    <<base64Char(bs[1] \div 4), base64Char((bs[1] % 4) * 16), 61, 61>>
  ELSE IF Len(bs) = 2 THEN
    <<base64Char(bs[1] \div 4), base64Char((bs[1] % 4) * 16 + (bs[2] \div 16)),
      base64Char((bs[2] % 16) * 4), 61>>
  ELSE
    <<base64Char(bs[1] \div 4), base64Char((bs[1] % 4) * 16 + (bs[2] \div 16)),
      base64Char((bs[2] % 16) * 4 + (bs[3] \div 64)), base64Char(bs[3] % 64)>>
    \o base64Slice(SubSeq(bs, 4, Len(bs)))

\* The characters of a base64 text up to its padding
RECURSIVE base64Digits(_)
base64Digits(cs) ==
  IF cs = <<>> \/ ~isBase64Char(Head(cs)) THEN <<>>
  ELSE <<base64Index(Head(cs))>> \o base64Digits(Tail(cs))

\* Buffer.from(string, 'base64') on the digits: four become three bytes, a
\* last group of two or three becomes one or two bytes
RECURSIVE base64Write(_)
base64Write(ds) ==
  IF Len(ds) < 2 THEN <<>>
  ELSE IF Len(ds) = 2 THEN <<ds[1] * 4 + (ds[2] \div 16)>>
  ELSE IF Len(ds) = 3 THEN
    <<ds[1] * 4 + (ds[2] \div 16), (ds[2] % 16) * 16 + (ds[3] \div 4)>>
  ELSE
    <<ds[1] * 4 + (ds[2] \div 16), (ds[2] % 16) * 16 + (ds[3] \div 4),
      (ds[3] % 4) * 64 + ds[4]>>
    \o base64Write(SubSeq(ds, 5, Len(ds)))

\* Buffer.from(value): the UTF-8 bytes of a string, a copy of a Buffer
BufferFrom(value) ==
  IF value.t = "string" THEN Buf(utf8Write(value.v)) ELSE Buf(value.v)

\* value.toString('utf-8'): a Buffer is decoded, a string is itself
toStringUtf8(value) ==
  IF value.t = "buffer" THEN utf8Slice(value.v) ELSE value.v

\* const btoa = buf => Buffer.from(buf).toString('base64')
btoa(buf) == Str(base64Slice(BufferFrom(buf).v))

\* const atob = str => Buffer.from(str, 'base64').toString('binary')
atob(str) == Str(latin1Slice(base64Write(base64Digits(str))))

\* The decimal digits of a natural number
RECURSIVE digits(_)
digits(n) ==
  IF n < 10 THEN <<48 + n>> ELSE digits(n \div 10) \o <<48 + (n % 10)>>

\* The characters of a string between its quotes: '"' and '\' are escaped
RECURSIVE quoted(_)
quoted(cs) ==
  IF cs = <<>> THEN <<>>
  ELSE (IF Head(cs) \in {34, 92} THEN <<92, Head(cs)>> ELSE <<Head(cs)>>)
       \o quoted(Tail(cs))

\* JSON.stringify(value), without indentation
RECURSIVE JSONstringify(_)
JSONstringify(value) ==
  LET RECURSIVE elements(_)
      elements(vs) ==
        IF vs = <<>> THEN <<>>
        ELSE JSONstringify(Head(vs))
             \o (IF Len(vs) > 1 THEN <<44>> ELSE <<>>) \o elements(Tail(vs))
      RECURSIVE members(_)
      members(ms) ==
        IF ms = <<>> THEN <<>>
        ELSE <<34>> \o quoted(Head(ms).k) \o <<34, 58>> \o JSONstringify(Head(ms).val)
             \o (IF Len(ms) > 1 THEN <<44>> ELSE <<>>) \o members(Tail(ms))
  IN
  IF value.t = "null" THEN <<110, 117, 108, 108>>
  ELSE IF value.t = "boolean" THEN
    (IF value = True THEN <<116, 114, 117, 101>> ELSE <<102, 97, 108, 115, 101>>)
  ELSE IF value.t = "number" THEN digits(value.v[1])
  ELSE IF value.t = "string" THEN <<34>> \o quoted(value.v) \o <<34>>
  ELSE IF value.t = "array" THEN <<91>> \o elements(value.v) \o <<93>>
  ELSE <<123>> \o members(value.v) \o <<125>>

\* A result of the parser: whether it succeeded, the value, and the text
\* that follows it
Parsed(value, rest) == [ok |-> TRUE, value |-> value, rest |-> rest]
Unparsed == [ok |-> FALSE, value |-> SyntaxError, rest |-> <<>>]

StartsWith(cs, word) == Len(cs) >= Len(word) /\ SubSeq(cs, 1, Len(word)) = word
After(cs, n) == SubSeq(cs, n + 1, Len(cs))
isDigit(c) == c >= 48 /\ c <= 57

\* A number: the digits at the start of the text, taken from the value n
\* read so far
RECURSIVE parseNumber(_, _)
parseNumber(cs, n) ==
  IF cs # <<>> /\ isDigit(Head(cs)) THEN parseNumber(Tail(cs), 10 * n + (Head(cs) - 48))
  ELSE Parsed(Num(n), cs)

\* A string after its opening quote, with the characters read so far
RECURSIVE parseString(_, _)
parseString(cs, read) ==
  IF cs = <<>> THEN Unparsed
  ELSE IF Head(cs) = 34 THEN Parsed(Str(read), Tail(cs))
  ELSE IF Head(cs) = 92 THEN
    IF Len(cs) >= 2 /\ cs[2] \in {34, 92}
      THEN parseString(After(cs, 2), Append(read, cs[2])) ELSE Unparsed
  ELSE parseString(Tail(cs), Append(read, Head(cs)))

\* One JSON value at the start of the text
RECURSIVE parseValue(_)
parseValue(cs) ==
  LET \* the elements of an array after '[' or ',', with those read so far
      RECURSIVE parseElements(_, _)
      parseElements(t, read) ==
        LET e == parseValue(t) IN
        IF ~e.ok \/ e.rest = <<>> THEN Unparsed
        ELSE IF Head(e.rest) = 44 THEN parseElements(Tail(e.rest), Append(read, e.value))
        ELSE IF Head(e.rest) = 93 THEN Parsed(Arr(Append(read, e.value)), Tail(e.rest))
        ELSE Unparsed
      \* the members of an object after '{' or ',', with those read so far
      RECURSIVE parseMembers(_, _)
      parseMembers(t, read) ==
        IF t = <<>> \/ Head(t) # 34 THEN Unparsed
        ELSE
          LET k == parseString(Tail(t), <<>>) IN
          IF ~k.ok \/ k.rest = <<>> \/ Head(k.rest) # 58 THEN Unparsed
          ELSE
            LET e == parseValue(Tail(k.rest))
                m == [k |-> k.value.v, val |-> e.value]
            IN
            IF ~e.ok \/ e.rest = <<>> THEN Unparsed
            ELSE IF Head(e.rest) = 44 THEN parseMembers(Tail(e.rest), Append(read, m))
            ELSE IF Head(e.rest) = 125 THEN Parsed(Members(Append(read, m)), Tail(e.rest))
            ELSE Unparsed
  IN
  IF cs = <<>> THEN Unparsed
  ELSE IF StartsWith(cs, <<110, 117, 108, 108>>) THEN Parsed(Null, After(cs, 4))
  ELSE IF StartsWith(cs, <<116, 114, 117, 101>>) THEN Parsed(True, After(cs, 4))
  ELSE IF StartsWith(cs, <<102, 97, 108, 115, 101>>) THEN Parsed(False, After(cs, 5))
  ELSE IF isDigit(Head(cs)) THEN parseNumber(cs, 0)
  ELSE IF Head(cs) = 34 THEN parseString(Tail(cs), <<>>)
  ELSE IF StartsWith(cs, <<91, 93>>) THEN Parsed(Arr(<<>>), After(cs, 2))
  ELSE IF Head(cs) = 91 THEN parseElements(Tail(cs), <<>>)
  ELSE IF StartsWith(cs, <<123, 125>>) THEN Parsed(Members(<<>>), After(cs, 2))
  ELSE IF Head(cs) = 123 THEN parseMembers(Tail(cs), <<>>)
  ELSE Unparsed

\* JSON.parse(text): the value the whole text denotes, else a SyntaxError
JSONparse(text) ==
  LET r == parseValue(text) IN
  IF r.ok /\ r.rest = <<>> THEN r.value ELSE SyntaxError

\* encoders[name](value)
encode(name, value) ==
  IF name = "json" THEN Str(JSONstringify(value))    \* JSON.stringify
  ELSE IF name = "base64" THEN btoa(value)           \* btoa
  ELSE IF name = "text" THEN Str(value.v)            \* String, of a string
  ELSE BufferFrom(value)                             \* value => Buffer.from(value)

\* decoders[name](value)
decode(name, value) ==
  IF name = "json" THEN JSONparse(toStringUtf8(value))
  ELSE IF name = "base64" THEN atob(toStringUtf8(value))
  ELSE IF name = "text" THEN Str(toStringUtf8(value))
  ELSE value                                         \* value => value

\* A published payload as the subscriber's 'message' event carries it: always
\* a Buffer, of the UTF-8 bytes when a string was published
onWire(payload) == BufferFrom(payload)

(***************************************************************************)
(* Round trips of the codecs: a value is encoded (frames holds what the    *)
(* encoder returned, with the value and the codec's name), and what was    *)
(* encoded is decoded as it arrives (log holds what the decoder returned). *)
(***************************************************************************)
MaxEncoded == 2

CodecNames == {"json", "base64", "text", "binary"}

\* Strings with 'a', 'e' acute (two bytes in UTF-8), '"' and '\'
TextValues ==
  <<Str(<<>>), Str(<<97>>), Str(<<233>>), Str(<<97, 233>>), Str(<<34, 92>>)>>

\* Buffers of one to four bytes, among them bytes that are no UTF-8 text
ByteValues ==
  <<Buf(<<>>), Buf(<<97>>), Buf(<<255>>), Buf(<<195, 169>>), Buf(<<0, 1, 2>>),
    Buf(<<109, 121, 32, 98>>)>>

\* null, true, false, numbers, strings, arrays and objects, nested
StructuredValues ==
  <<Null, True, False, Num(0), Num(42), Str(<<97, 233>>), Str(<<34, 92>>),
    Arr(<<>>), Arr(<<Num(1), Str(<<97>>)>>), Members(<<>>),
    Members(<<[k |-> <<102>>, val |-> Str(<<98>>)]>>),
    Members(<<[k |-> <<97>>, val |-> Arr(<<Null, Num(7)>>)],
              [k |-> <<98>>, val |-> Members(<<[k |-> <<99>>, val |-> True]>>)]>>)>>

\* The values each codec is for, in a list
ValuesOf(name) ==
  IF name = "json" THEN StructuredValues
  ELSE IF name = "text" THEN TextValues
  ELSE ByteValues

Encode(name, value) ==
  /\ Len(frames) < MaxEncoded
  /\ frames' = Append(frames, [cmd |-> "encoded", codec |-> name, value |-> value,
                               payload |-> encode(name, value)])
  /\ UNCHANGED <<phase, connOpts, baseOpts, toad, calls, received, client, errors, log>>

Decode ==
  /\ Len(log) < Len(frames)
  /\ LET f == frames[Len(log) + 1] IN
     log' = Append(log, [codec |-> f.codec, value |-> f.value,
                         arg |-> decode(f.codec, onWire(f.payload))])
  /\ UNCHANGED <<phase, connOpts, baseOpts, toad, calls, frames, received, client, errors>>

NextRoundTrip ==
  \/ \E name \in CodecNames :
       \E n \in 1..Len(ValuesOf(name)) : Encode(name, ValuesOf(name)[n])
  \/ Decode

SpecRoundTrip == Init /\ [][NextRoundTrip]_vars

(***************************************************************************)
(* The EventEmitter-style client (src/unnamed/part_001, lines 1-217):      *)
(* client.on and client.once subscribe, client.removeListener and the      *)
(* firing of a once() listener unsubscribe when no listener is left, and   *)
(* 'suback', 'unsuback' and 'error' are emitted on the client.  Here toad  *)
(* is client._topicEmitter, calls holds the on, once and removeListener    *)
(* calls and the unsub requests made for them, and log the events emitted  *)
(* on the client.  The 'removeListener' hook is a listener of the same     *)
(* emitter; none of the topics and filters below reaches it.               *)
(***************************************************************************)
\* event.replace(/\*\*/g, '#')
RECURSIVE replaceStarStar(_)
replaceStarStar(s) ==
  IF s = <<>> THEN <<>>
  ELSE IF Len(s) >= 2 /\ s[1] = "*" /\ s[2] = "*"
    THEN <<"#">> \o replaceStarStar(SubSeq(s, 3, Len(s)))
  ELSE <<Head(s)>> \o replaceStarStar(Tail(s))

\* .replace(/\*/g, '+')
RECURSIVE replaceStar(_)
replaceStar(s) ==
  IF s = <<>> THEN <<>>
  ELSE (IF Head(s) = "*" THEN <<"+">> ELSE <<Head(s)>>) \o replaceStar(Tail(s))

\* event.replace(/\*\*/g, '#').replace(/\*/g, '+')
mqttify(event) == replaceStar(replaceStarStar(event))

\* EventEmitter2#many(event, 1, fn), which once() calls: the function
\*   listener() { if (--ttl === 0) self.off(event, listener); fn.apply(..) }
\* with listener._origin = fn, a new function object per call (id)
Many(id, event, fn) ==
  [t |-> "function", v |-> "many", id |-> id, event |-> event, origin |-> fn]

IsMany(handler) == "origin" \in DOMAIN handler

\* What client._topicEmitter[methodName](ee2Topic, listener) registers
Registration(methodName, id, event, listener) ==
  IF methodName = "once" THEN Many(id, event, listener) ELSE listener

(***************************************************************************)
(* EventEmitter2#removeListener(type, listener) with the 'removeListener'  *)
(* hook of toadpatch: after each removal the emitter emits                 *)
(* 'removeListener', and the hook calls unsub(client, mqttify(event)) when *)
(* listenerCount(event) is 0.  The result is the tree and the topics       *)
(* unsub was called with, in order.                                        *)
(***************************************************************************)
RECURSIVE offLeafsHooked(_, _, _, _, _)
offLeafsHooked(tree, ls, listener, event, unsubs) ==
  IF ls = <<>> THEN [tree |-> collect(tree), unsubs |-> unsubs]
  ELSE
    LET leaf == NodeAt(tree, Head(ls))
        p == Position(leaf.ls, listener)
        removed ==
          PutAt(tree, Head(ls),
                IF Len(leaf.ls) = 1
                  THEN [leaf EXCEPT !.kind = "none", !.ls = <<>>]
                  ELSE [leaf EXCEPT !.ls = Splice(leaf.ls, p)])
        hooked == IF listenerCount(removed, event) = 0
                    THEN Append(unsubs, mqttify(event)) ELSE unsubs
    IN
    IF leaf.kind = "arr" THEN
      IF p = 0 THEN offLeafsHooked(tree, Tail(ls), listener, event, unsubs)
      ELSE [tree |-> removed, unsubs |-> hooked]
    ELSE IF leaf.kind = "fn" /\ p = 1 THEN
      offLeafsHooked(removed, Tail(ls), listener, event, hooked)
    ELSE offLeafsHooked(tree, Tail(ls), listener, event, unsubs)

removeListenerHooked(tree, event, listener) ==
  offLeafsHooked(tree, leafs(tree, event), listener, event, <<>>)

\* The requests unsub makes of the MQTT client, and a record of each
UnsubFrames(topics) ==
  [k \in 1..Len(topics) |-> Frame("unsubscribe", topics[k], Undefined)]

UnsubCalls(topics, base) ==
  [k \in 1..Len(topics) |->
     Call("unsub", topics[k], Undefined, EmptyObj, "pending", "", 0, base + k)]

\* An event emitted on the client, for the call it belongs to
Emitted(event, call, topic) == [event |-> event, call |-> call, topic |-> topic]

\* exports.connect of this client: MQTT.connect(...args), with 'error' and
\* 'connect' listeners
ProxyConnect ==
  /\ phase = "idle"
  /\ phase' = "connecting"
  /\ client' = [client EXCEPT !.made = TRUE, !.opening = TRUE]
  /\ UNCHANGED <<connOpts, baseOpts, toad, calls, frames, received, errors, log>>

\* 'connect': resolve(toadpatch(client)), with a new client._topicEmitter
ProxyConnAck ==
  /\ phase = "connecting"
  /\ phase' = "connected"
  /\ client' = [Acknowledged(client) EXCEPT !.patches = 1]
  /\ toad' = EmptyNode
  /\ UNCHANGED <<connOpts, baseOpts, calls, frames, received, errors, log>>

\* eventProxy: client.on(topic, listener) or client.once(topic, listener) for
\* a topic that is no client event
ProxyOn(methodName, topic, listener) ==
  /\ phase = "connected"
  /\ Len(calls) < MaxCalls
  /\ toad' = on(toad, eventify(topic),
                Registration(methodName, Len(calls) + 1, eventify(topic), listener))
  /\ frames' = Append(frames, Frame("subscribe", topic, RequestedQos(EmptyObj)))
  /\ calls' = Append(calls, Call(methodName, topic, listener, EmptyObj, "pending", "",
                                 Len(UnderFilter(toad, topic)), Len(frames) + 1))
  /\ UNCHANGED <<phase, connOpts, baseOpts, received, client, errors, log>>

\* The subscribe promise is fulfilled: .catch is passed over, .then emits
\* 'suback'
ProxySubAck(i) ==
  /\ i \in 1..Len(calls)
  /\ calls[i].op \in {"on", "once"} /\ calls[i].st = "pending"
  /\ calls' = [calls EXCEPT ![i].st = "fulfilled", ![i].result = TRUE]
  /\ log' = Append(log, Emitted("suback", i, calls[i].topic))
  /\ UNCHANGED <<phase, connOpts, baseOpts, toad, frames, received, client, errors>>

\* The subscribe promise is rejected: .catch removes the listener and emits
\* 'error', and the .then chained after it runs with what .catch returned
ProxySubFail(i) ==
  /\ i \in 1..Len(calls)
  /\ calls[i].op \in {"on", "once"} /\ calls[i].st = "pending"
  /\ Failures < MaxFailures
  /\ LET off == removeListenerHooked(toad, eventify(calls[i].topic), calls[i].listener)
     IN
     /\ toad' = off.tree
     /\ frames' = frames \o UnsubFrames(off.unsubs)
     /\ calls' = [calls EXCEPT ![i].st = "rejected", ![i].error = "Error"]
                 \o UnsubCalls(off.unsubs, Len(frames))
  /\ log' = log \o <<Emitted("error", i, calls[i].topic),
                     Emitted("suback", i, calls[i].topic)>>
  /\ UNCHANGED <<phase, connOpts, baseOpts, received, client, errors>>

\* The client.removeListener proxy, for a topic that is no client event
ProxyRemoveListener(topic, listener) ==
  /\ phase = "connected"
  /\ Len(calls) < MaxCalls
  /\ LET off == removeListenerHooked(toad, eventify(topic), listener) IN
     /\ toad' = off.tree
     /\ frames' = frames \o UnsubFrames(off.unsubs)
     /\ calls' = Append(calls, Call("removeListener", topic, listener, EmptyObj,
                                    "fulfilled", "", Len(UnderFilter(toad, topic)), 0))
                 \o UnsubCalls(off.unsubs, Len(frames))
  /\ UNCHANGED <<phase, connOpts, baseOpts, received, client, errors, log>>

\* emit calls the handlers it has collected, one after the other: a once()
\* handler first removes itself, which runs the hook, and then calls its
\* listener.  The result is the tree, the topics unsub was called with and
\* the listeners called.
RECURSIVE callHandlers(_, _)
callHandlers(hs, done) ==
  IF hs = <<>> THEN done
  ELSE
    LET h == Head(hs)
        off == IF IsMany(h) THEN removeListenerHooked(done.tree, h.event, h)
               ELSE [tree |-> done.tree, unsubs |-> <<>>]
    IN callHandlers(Tail(hs),
                    [tree |-> off.tree, unsubs |-> done.unsubs \o off.unsubs,
                     called |-> Append(done.called,
                                       IF IsMany(h) THEN h.origin ELSE h)])

\* client.on('message', ...): client._topicEmitter.emit(eventify(topic),
\* message, packet)
ProxyMessage(topic, message) ==
  /\ phase = "connected"
  /\ LET done == callHandlers(emitHandlers(toad, eventify(topic)),
                              [tree |-> toad, unsubs |-> <<>>, called |-> <<>>])
     IN
     /\ toad' = done.tree
     /\ frames' = frames \o UnsubFrames(done.unsubs)
     /\ calls' = calls \o UnsubCalls(done.unsubs, Len(frames))
     /\ received' = done.called
  /\ UNCHANGED <<phase, connOpts, baseOpts, client, errors, log>>

\* unsub: the unsubscribe promise is fulfilled, 'unsuback' is emitted with
\* {topic}
ProxyUnsubAck(i) ==
  /\ i \in 1..Len(calls)
  /\ calls[i].op = "unsub" /\ calls[i].st = "pending"
  /\ calls' = [calls EXCEPT ![i].st = "fulfilled", ![i].result = TRUE]
  /\ log' = Append(log, Emitted("unsuback", i, calls[i].topic))
  /\ UNCHANGED <<phase, connOpts, baseOpts, toad, frames, received, client, errors>>

\* unsub: the unsubscribe promise is rejected, 'error' is emitted
ProxyUnsubFail(i) ==
  /\ i \in 1..Len(calls)
  /\ calls[i].op = "unsub" /\ calls[i].st = "pending"
  /\ Failures < MaxFailures
  /\ calls' = [calls EXCEPT ![i].st = "rejected", ![i].error = "Error"]
  /\ log' = Append(log, Emitted("error", i, calls[i].topic))
  /\ UNCHANGED <<phase, connOpts, baseOpts, toad, frames, received, client, errors>>

\* The calls and requests of one behaviour: each on, once or removeListener
\* call makes at most one unsub request more
MaxRecords == 2 * MaxCalls

ProxyMethods == {"on", "once"}
ProxyFilters == {FB, FH}
ProxyTopics == {FB}

NextProxy ==
  \/ ProxyConnect
  \/ ProxyConnAck
  \/ \E m \in ProxyMethods, f \in ProxyFilters, l \in Listeners : ProxyOn(m, f, l)
  \/ \E i \in 1..MaxRecords : ProxySubAck(i)
  \/ \E i \in 1..MaxRecords : ProxySubFail(i)
  \/ \E f \in ProxyFilters, l \in Listeners : ProxyRemoveListener(f, l)
  \/ \E t \in ProxyTopics : ProxyMessage(t, Payload)
  \/ \E i \in 1..MaxRecords : ProxyUnsubAck(i)
  \/ \E i \in 1..MaxRecords : ProxyUnsubFail(i)

SpecProxy == Init /\ [][NextProxy]_vars

\* The same client with a filter and a topic whose second segment is '*'
StarMethods == {"once"}

NextProxyStar ==
  \/ ProxyConnect
  \/ ProxyConnAck
  \/ \E m \in StarMethods, f \in {FB, FS}, l \in Listeners : ProxyOn(m, f, l)
  \/ \E i \in 1..MaxRecords : ProxySubAck(i)
  \/ \E t \in StarTopics : ProxyMessage(t, Payload)
  \/ \E i \in 1..MaxRecords : ProxyUnsubAck(i)

SpecProxyStar == Init /\ [][NextProxyStar]_vars

(***************************************************************************)
(* Properties.                                                             *)
(***************************************************************************)
Last(q) == q[Len(q)]

\* The step is a call of unsubscribe(f, l)
IsUnsubscribeStep(f, l) ==
  /\ Len(calls') = Len(calls) + 1
  /\ Last(calls').op = "unsubscribe"
  /\ Last(calls').topic = f
  /\ Last(calls').listener = l

\* The wrapper made by call i is among these handlers
HasWrapper(hs, i) == \E k \in 1..Len(hs) : hs[k].id = i

\* An inbound message on topic t would now invoke the wrapper made by call i
WouldInvoke(tree, t, i) ==
  \E k \in 1..Len(Invoked(tree, t, Payload)) : Invoked(tree, t, Payload)[k].id = i

\* C1: when the broker-level subscribe of a subscribe call has failed, the
\* wrapper that call registered is registered no more and no inbound message
\* invokes it, and (no other call having touched the registry meanwhile) the
\* filter has as many listeners as before the call.
C1_FailedSubscribeRolledBack ==
  \A i \in 1..Len(calls) :
    (calls[i].op = "subscribe" /\ calls[i].st = "rejected" /\ calls[i].error = "Error")
    => /\ ~HasWrapper(UnderFilter(toad, calls[i].topic), i)
       /\ \A t \in Topics : ~WouldInvoke(toad, t, i)
       /\ (Len(calls) = i /\ \A j \in 1..(i - 1) : calls[j].error # "Error")
            => Len(UnderFilter(toad, calls[i].topic)) = calls[i].before

\* C2: once unsubscribe(topic, listener) has resolved, no inbound message
\* invokes that listener through a registration made by an earlier, successful
\* subscribe(topic, listener).
C2_UnsubscribedListenerSilent ==
  \A u \in 1..Len(calls) :
    (calls[u].op = "unsubscribe" /\ calls[u].listener # Undefined
       /\ calls[u].st = "fulfilled")
    => \A i \in 1..(u - 1) :
         (calls[i].op = "subscribe" /\ calls[i].st = "fulfilled"
            /\ calls[i].topic = calls[u].topic
            /\ calls[i].listener = calls[u].listener)
         => \A t \in Topics : ~WouldInvoke(toad, t, i)

\* C3: unsubscribe(filter, thatListener) with exactly that one listener under
\* the filter sends a broker unsubscribe for the filter and awaits it (to
\* resolve to true), and leaves no listener of that filter to dispatch to.
C3_LastListenerUnsubscribes ==
  [][\A f \in Filters, l \in Listeners :
       (/\ IsUnsubscribeStep(f, l)
        /\ Len(UnderFilter(toad, f)) = 1
        /\ UnderFilter(toad, f)[1].listener = l)
       => /\ frames' = Append(frames, Frame("unsubscribe", f, Undefined))
          /\ Last(calls').st = "pending"
          /\ UnderFilter(toad', f) = <<>>
          /\ \A t \in Topics :
               ~WouldInvoke(toad', t, UnderFilter(toad, f)[1].id)]_vars

\* C4: unsubscribe(filter, oneOfThem) with two or more listeners under the
\* filter sends no broker unsubscribe, resolves to false, and every other
\* listener under the filter stays registered and is invoked for matching
\* messages.
C4_SharedFilterStaysSubscribed ==
  [][\A f \in Filters, l \in SharedListeners :
       (/\ IsUnsubscribeStep(f, l)
        /\ Len(UnderFilter(toad, f)) >= 2
        /\ \E k \in 1..Len(UnderFilter(toad, f)) : UnderFilter(toad, f)[k].listener = l)
       => /\ frames' = frames
          /\ Last(calls').st = "fulfilled"
          /\ Last(calls').result = FALSE
          /\ \A k \in 1..Len(UnderFilter(toad, f)) :
               LET w == UnderFilter(toad, f)[k] IN
               w.listener # l
               => /\ HasWrapper(UnderFilter(toad', f), w.id)
                  /\ \A t \in Topics : matches(f, t) => WouldInvoke(toad', t, w.id)]_vars

\* C4 happens: an unsubscribe with a listener, made while the filter had two
\* or more listeners, one of them registered with that listener, has resolved
\* to false.
C4_Witness ==
  \E u \in 1..Len(calls) :
    /\ calls[u].op = "unsubscribe" /\ calls[u].listener # Undefined
    /\ calls[u].before >= 2
    /\ calls[u].st = "fulfilled" /\ calls[u].result = FALSE
    /\ \E i \in 1..(u - 1) :
         /\ calls[i].op = "subscribe" /\ calls[i].st = "fulfilled"
         /\ calls[i].topic = calls[u].topic /\ calls[i].listener = calls[u].listener
    /\ \E i \in 1..(u - 1) :
         /\ calls[i].op = "subscribe" /\ calls[i].st = "fulfilled"
         /\ calls[i].topic = calls[u].topic /\ calls[i].listener # calls[u].listener

\* C5: unsubscribe(filter) without a listener, made while the filter has
\* listeners, removes all of them, sends one broker unsubscribe for the filter
\* and awaits it (to resolve to true), and no inbound message invokes a
\* listener of that filter afterwards.
C5_UnsubscribeAllUnsubscribes ==
  [][\A f \in Filters :
       (IsUnsubscribeStep(f, Undefined) /\ Len(UnderFilter(toad, f)) >= 1)
       => /\ UnderFilter(toad', f) = <<>>
          /\ frames' = Append(frames, Frame("unsubscribe", f, Undefined))
          /\ Last(calls').st = "pending"
          /\ \A k \in 1..Len(UnderFilter(toad, f)), t \in Topics :
               ~WouldInvoke(toad', t, UnderFilter(toad, f)[k].id)]_vars

\* C6: unsubscribe(f, ...) leaves the listeners under every other filter g
\* registered, and, made while f has listeners, sends a broker unsubscribe
\* exactly when no listener is left under exactly f.
C6_UnsubscribeExactFilterOnly ==
  [][\A f \in Filters, l \in Listeners \cup {Undefined} :
       IsUnsubscribeStep(f, l)
       => /\ \A g \in Filters \ {f} : UnderFilter(toad', g) = UnderFilter(toad, g)
          /\ Len(UnderFilter(toad, f)) >= 1
               => ((frames' # frames) <=> (UnderFilter(toad', f) = <<>>))]_vars

\* The codec a call is to use: the call's option, else the option given to
\* connect(), else the default; a name stands for the built-in of that name
Named(builtins, v) == IF v.t = "string" THEN builtins[v.v] ELSE v

ExpectedCodec(prop, builtins, callOpts) ==
  IF prop \in DOMAIN callOpts THEN Named(builtins, callOpts[prop])
  ELSE IF prop \in DOMAIN connOpts THEN Named(builtins, connOpts[prop])
  ELSE DEFAULT_OPTS[prop]

\* C7: every listener invocation gets the payload decoded by the decoder of
\* its subscribe call, else of connect(), else text; every publish request
\* carries the message encoded by the encoder of the publish call, else of
\* connect(), else text.
C7_CallOptionsTakePrecedence ==
  /\ \A k \in 1..Len(received) :
       received[k].arg =
         Apply(ExpectedCodec("decoder", decoders, calls[received[k].id].opts), Payload)
  /\ \A i \in 1..Len(calls) :
       (calls[i].op = "publish" /\ calls[i].frame > 0)
       => frames[calls[i].frame].payload =
            Apply(ExpectedCodec("encoder", encoders, calls[i].opts), Outbound)

\* The filter the invoked listener was subscribed with
FilterOf(inv) == calls[inv.id].topic

Rank(seg) == IF seg = <<"#">> THEN 2 ELSE IF seg = <<"+">> THEN 1 ELSE 0

\* Filters a and b share a literal prefix and differ at one segment position,
\* where a is the more specific: a literal against '+' or '#', or '+' against
\* '#'; b ends with its '#', or the two go on alike
MoreSpecificAtOneSegment(fa, fb) ==
  LET a == split(fa)
      b == split(fb)
  IN \E p \in 1..Len(a) :
       /\ p <= Len(b)
       /\ \A q \in 1..(p - 1) : a[q] = b[q] /\ Rank(a[q]) = 0
       /\ Rank(a[p]) < Rank(b[p])
       /\ \/ b[p] = <<"#">> /\ Len(b) = p
          \/ Len(a) = Len(b) /\ \A q \in (p + 1)..Len(a) : a[q] = b[q]

\* C8: of the listeners invoked for one inbound message, the listener of a
\* filter that is more specific at the one segment where two filters differ
\* (literal, then '+', then '#') is invoked first, whatever the order of the
\* subscribe calls.
C8_OrderOfSpecificity ==
  \A x, y \in 1..Len(received) :
    MoreSpecificAtOneSegment(FilterOf(received[x]), FilterOf(received[y])) => x < y

\* C8 happens: a message was dispatched to the listeners of 'f/q/b', 'f/+/b'
\* and 'f/#', the '#' listener having been subscribed before the literal one.
C8_Witness ==
  /\ Len(received) = 3
  /\ FilterOf(received[1]) = FQB
  /\ FilterOf(received[2]) = FPB
  /\ FilterOf(received[3]) = FH
  /\ received[3].id < received[1].id

\* The specificity class of a filter: 0 all literal, 1 with '+' and no '#',
\* 2 with '#'
Class(f) ==
  IF \E q \in 1..Len(split(f)) : split(f)[q] = <<"#">> THEN 2
  ELSE IF \E q \in 1..Len(split(f)) : split(f)[q] = <<"+">> THEN 1
  ELSE 0

\* C9: of the listeners invoked for one inbound message, those of literal
\* filters come first, then those of '+' filters, then those of '#' filters.
C9_OrderBySpecificityClass ==
  \A x, y \in 1..Len(received) :
    x < y => Class(FilterOf(received[x])) <= Class(FilterOf(received[y]))

\* C10: of the listeners invoked for one inbound message, those of two
\* different filters of the same specificity class are invoked in the order
\* in which they were registered.
C10_TiesInRegistrationOrder ==
  \A x, y \in 1..Len(received) :
    (/\ x < y
     /\ FilterOf(received[x]) # FilterOf(received[y])
     /\ Class(FilterOf(received[x])) = Class(FilterOf(received[y])))
    => received[x].id < received[y].id

\* The number of invocations, in one dispatch, of the wrapper made by call i
TimesInvoked(invs, i) == Cardinality({k \in 1..Len(invs) : invs[k].id = i})

\* The position in one dispatch of the first invocation of the wrapper of call i
FirstInvoked(invs, i) == CHOOSE k \in 1..Len(invs) :
  invs[k].id = i /\ \A m \in 1..(k - 1) : invs[m].id # i

\* No unsubscribe call was made after call i
NoUnsubscribeSince(i) == \A u \in (i + 1)..Len(calls) : calls[u].op # "unsubscribe"

\* Calls i and j subscribed the same filter with two different listeners
SubscribedTwice(i, j) ==
  /\ i < j
  /\ calls[i].op = "subscribe" /\ calls[i].st = "fulfilled"
  /\ calls[j].op = "subscribe" /\ calls[j].st = "fulfilled"
  /\ calls[i].topic = calls[j].topic
  /\ calls[i].listener # calls[j].listener

\* C11: after two successful subscribe calls of the same filter with two
\* different listeners (and no unsubscribe since), an inbound message on a
\* matching topic invokes each of the two listeners exactly once, the one
\* subscribed first before the other.
C11_DoubleSubscribeInvokesBothInOrder ==
  \A i, j \in 1..Len(calls) :
    (SubscribedTwice(i, j) /\ NoUnsubscribeSince(i))
    => \A t \in Topics :
         matches(calls[i].topic, t)
         => LET invs == Invoked(toad, t, Payload) IN
            /\ TimesInvoked(invs, i) = 1
            /\ TimesInvoked(invs, j) = 1
            /\ FirstInvoked(invs, i) < FirstInvoked(invs, j)

\* C11 happens: a message was dispatched to the two listeners subscribed to
\* one filter by two successful subscribe calls.
C11_Witness ==
  \E i, j \in 1..Len(calls) :
    /\ SubscribedTwice(i, j) /\ NoUnsubscribeSince(i)
    /\ \E x, y \in 1..Len(received) :
         /\ x < y /\ received[x].id = i /\ received[y].id = j
         /\ received[x].listener = calls[i].listener
         /\ received[y].listener = calls[j].listener

\* C12: for every registered filter f and every inbound topic t, the
\* listeners under f are invoked for t if and only if matches(f, t).
C12_InvokedIffMatches ==
  \A f \in MatchFilters, t \in MatchTopics :
    \A k \in 1..Len(UnderFilter(toad, f)) :
      WouldInvoke(toad, t, UnderFilter(toad, f)[k].id) <=> matches(f, t)

\* C13: when a listener matched by an inbound message (or its decoder)
\* throws, every other listener the message matches is still invoked and
\* nothing is thrown into the MQTT client's 'message' event.
C13_ListenerFailuresIsolated ==
  \A t \in Topics :
    LET hs == emitHandlers(toad, eventify(t))
        invs == Invoked(toad, t, Payload)
    IN /\ \A k \in 1..Len(hs) :
            \E m \in 1..Len(invs) : invs[m].id = hs[k].id
       /\ ~Uncaught(invs)

\* C14: a subscribe call sends a broker subscribe frame exactly when its
\* filter had no listener when the call was made: a call on a filter that has
\* a listener (of a subscribe acknowledged or still pending) sends none.
C14_OneSubscribeFramePerNewFilter ==
  \A i \in 1..Len(calls) :
    (calls[i].op = "subscribe" /\ calls[i].error \notin {"TypeError", "ReferenceError"})
    => (calls[i].frame > 0 <=> calls[i].before = 0)

\* C15: an unsubscribe call made while its filter has no listeners (never
\* subscribed, or already fully unsubscribed) sends no broker unsubscribe
\* frame and does not resolve to true.
C15_NoUnsubscribeFrameWithoutListeners ==
  \A u \in 1..Len(calls) :
    (calls[u].op = "unsubscribe" /\ calls[u].before = 0)
    => /\ calls[u].frame = 0
       /\ ~(calls[u].st = "fulfilled" /\ calls[u].result)

\* The wrapper made by call i is registered somewhere in the tree
RECURSIVE Registered(_, _)
Registered(tree, i) ==
  \/ HasWrapper(tree.ls, i)
  \/ \E k \in 1..Len(tree.kids) : Registered(tree.kids[k].node, i)

\* The step is a call of subscribe
IsSubscribeStep ==
  /\ Len(calls') = Len(calls) + 1
  /\ Last(calls').op = "subscribe"

\* C16: subscribe called with a topic that is not a string or a listener that
\* is not a function rejects with a TypeError, and leaves the registry and the
\* frames as they were.
C16_InvalidParametersRejected ==
  [][(/\ IsSubscribeStep
      /\ \/ Last(calls').topic \in {NoTopic, ObjectTopic}
         \/ Last(calls').listener.t # "function")
     => /\ Last(calls').st = "rejected"
        /\ Last(calls').error = "TypeError"
        /\ toad' = toad
        /\ frames' = frames]_vars

\* C16 happens: a subscribe call without a string topic, and one without a
\* listener function, were rejected.
C16_Witness ==
  /\ \E i \in 1..Len(calls) :
       /\ calls[i].op = "subscribe" /\ calls[i].topic \in {NoTopic, ObjectTopic}
       /\ calls[i].listener = lA /\ calls[i].st = "rejected"
  /\ \E i \in 1..Len(calls) :
       /\ calls[i].op = "subscribe" /\ calls[i].topic = FB
       /\ calls[i].listener.t # "function" /\ calls[i].st = "rejected"

\* C17: subscribe called with the empty string as topic rejects with a
\* TypeError, and leaves the registry and the frames as they were.
C17_EmptyTopicRejected ==
  [][(IsSubscribeStep /\ Last(calls').topic = EmptyTopic)
     => /\ Last(calls').st = "rejected"
        /\ Last(calls').error = "TypeError"
        /\ toad' = toad
        /\ frames' = frames]_vars

\* The step is a call of subscribe or publish
IsCodecCallStep ==
  /\ Len(calls') = Len(calls) + 1
  /\ Last(calls').op \in {"subscribe", "publish"}

\* The codec option of the call, where it has one
HasCodecOption(c) == c.opts # EmptyObj
CodecOption(c) == IF "decoder" \in DOMAIN c.opts THEN c.opts["decoder"] ELSE c.opts["encoder"]

BuiltinNames == {"json", "text", "base64", "binary"}

\* C18: publish or subscribe with a codec name that is none of the built-in
\* names rejects with a ReferenceError, with a codec option that is neither a
\* string nor a function rejects with a TypeError, and in both cases no
\* listener is registered and no frame is sent.
C18_UnresolvedCodecFailsFirst ==
  [][(IsCodecCallStep /\ HasCodecOption(Last(calls')))
     => LET c == Last(calls')
            o == CodecOption(c)
        IN /\ (o.t = "string" /\ o.v \notin BuiltinNames)
                => /\ c.st = "rejected" /\ c.error = "ReferenceError"
                   /\ toad' = toad /\ frames' = frames
           /\ o.t \notin {"string", "function"}
                => /\ c.st = "rejected" /\ c.error = "TypeError"
                   /\ toad' = toad /\ frames' = frames]_vars

\* C19: a decoder or encoder option that is a string other than json, text,
\* base64 and binary makes the call reject with a ReferenceError.
C19_UnknownNameIsReferenceError ==
  \A i \in 1..Len(calls) :
    (/\ calls[i].op \in {"subscribe", "publish"}
     /\ HasCodecOption(calls[i])
     /\ CodecOption(calls[i]).t = "string"
     /\ CodecOption(calls[i]).v \notin BuiltinNames)
    => (calls[i].st = "rejected" /\ calls[i].error = "ReferenceError")

\* C20: on a client patched without baseOpts, a listener subscribed without
\* a decoder option is called with the payload decoded as text, and a
\* publish call without an encoder option sends the message encoded as text.
C20_PatchedClientDefaultsToText ==
  baseOpts = EmptyObj /\ phase = "connected"
  => /\ \A t \in Topics :
          LET hs == emitHandlers(toad, eventify(t)) IN
          \A k \in 1..Len(hs) :
            calls[hs[k].id].opts = EmptyObj
            => /\ Invocation(hs[k], Payload).called
               /\ Invocation(hs[k], Payload).arg = Apply(decoders.text, Payload)
     /\ \A i \in 1..Len(calls) :
          (calls[i].op = "publish" /\ calls[i].opts = EmptyObj)
          => /\ calls[i].frame > 0
             /\ frames[calls[i].frame].payload = Apply(encoders.text, Outbound)

\* The step is the 'connect' event for this connack
IsConnAckStep(connack) == ConnAckWith(connack)

\* C21: with every connect acknowledgement, the one that resolves connect()
\* and every later one after a reconnect, sessionPresent becomes the
\* session-present flag of that acknowledgement; once connect() has resolved
\* it is a boolean.
C21_SessionPresentFollowsConnack ==
  [][/\ \A connack \in Connacks :
          IsConnAckStep(connack)
          => client'.sessionPresent = connack.sessionPresent
     /\ phase' = "connected" => client'.sessionPresent \in {True, False}]_vars

\* C21 happens: after a reconnect, the client of a resolved connect() has
\* sessionPresent true.
C21_Witness ==
  /\ phase = "connected"
  /\ client.acks = 2
  /\ client.connected
  /\ client.sessionPresent = True

\* C22: when the MqttClient emits 'error' before the first connack, connect()
\* is rejected and stays so, and the client is never patched into a session,
\* also when a connack arrives later; when the connack comes first, connect()
\* is resolved and stays so.
C22_AckOrErrorDecides ==
  /\ (errors # <<>> /\ errors[1].rejects)
       => (phase = "failed" /\ client.patches = 0)
  /\ (client.acks >= 1 /\ ~(errors # <<>> /\ errors[1].rejects))
       => phase = "connected"

\* The step is a call of end()
IsEndStep ==
  /\ Len(calls') = Len(calls) + 1
  /\ Last(calls').op = "end"

\* C23: end() called while the client is not connected resolves at once,
\* requests no disconnect and changes nothing of the client, the registry or
\* the frames, however often it is called.
C23_EndWhenNotConnectedIsNoOp ==
  [][(IsEndStep /\ ~client.connected)
     => /\ Last(calls').st = "fulfilled"
        /\ frames' = frames
        /\ client' = client
        /\ toad' = toad
        /\ phase' = phase]_vars

\* C23 happens: two end() calls made while the client was not connected have
\* both resolved.
C23_Witness ==
  \E i, j \in 1..Len(calls) :
    /\ i < j
    /\ calls[i].op = "end" /\ calls[i].st = "fulfilled" /\ calls[i].frame = 0
    /\ calls[j].op = "end" /\ calls[j].st = "fulfilled" /\ calls[j].frame = 0

\* C24: once an end() call has resolved, the client is not connected and not
\* reconnecting, whatever state end() was called in.
C24_EndedStaysDisconnected ==
  (\E i \in 1..Len(calls) : calls[i].op = "end" /\ calls[i].st = "fulfilled")
  => (~client.connected /\ ~client.reconnecting)

\* C25: publish(topic, message) with a message that is neither a string nor a
\* Buffer (a Date object) is rejected and hands no publish request to the
\* MQTT client.
C25_InvalidMessageRejected ==
  [][Publish(FB, DateMessage, EmptyObj)
     => (Last(calls').st = "rejected" /\ frames' = frames)]_vars

\* C26: a subscribe call the broker acknowledges resolves to the topic of the
\* call with the QoS the suback grants, also when that is lower than the
\* requested one; the request asks for the QoS of the qos option, and for
\* QoS 0 without one.
C26_ResolvesToGrantedQos ==
  [][/\ \A i \in 1..Len(calls), g \in QosLevels :
          SubGranted(i, g)
          => /\ calls'[i].st = "fulfilled"
             /\ calls'[i].value = [topic |-> calls[i].topic, qos |-> g]
     /\ \A o \in QosOptions :
          (IsSubscribeStep /\ Last(calls').opts = o /\ Last(calls').frame > 0)
          => Last(frames').payload = (IF o = EmptyObj THEN Qos("0") ELSE o["qos"])]_vars

\* C26 happens: a subscribe call that asked for QoS 2 has resolved to a lower
\* QoS, and one made without a qos option has resolved.
C26_Witness ==
  /\ \E i \in 1..Len(calls) :
       /\ calls[i].op = "subscribe" /\ calls[i].opts = [qos |-> Qos("2")]
       /\ calls[i].st = "fulfilled" /\ calls[i].value.qos = Qos("1")
  /\ \E i \in 1..Len(calls) :
       /\ calls[i].op = "subscribe" /\ calls[i].opts = EmptyObj
       /\ calls[i].st = "fulfilled" /\ calls[i].value.qos = Qos("0")

\* C27: every call that is pending settles eventually (is fulfilled or
\* rejected), also when the broker acknowledges no request.
C27_EveryCallSettles ==
  \A i \in 1..MaxCalls :
    (Len(calls) >= i /\ calls[i].st = "pending")
      ~> (Len(calls) >= i /\ calls[i].st # "pending")


C29_ReconnectChangesOnlySessionPresent ==
  [][\A connack \in Connacks :
       (client.acks >= 1 /\ IsConnAckStep(connack))
       => /\ toad' = toad
          /\ client'.patches = client.patches
          /\ frames' = frames
          /\ calls' = calls
          /\ phase' = phase
          /\ baseOpts' = baseOpts]_vars

\* C29 happens: the client has reconnected while a listener was registered,
\* and still has it
C29_Witness ==
  /\ client.acks = 2
  /\ client.connected
  /\ client.patches = 1
  /\ toad # EmptyNode

\* C30: an 'error' of the transport after connect() has resolved reaches the
\* caller: it is passed to a listener of the caller or thrown, the first such
\* error like every later one.
C30_PostConnectErrorSurfaced ==
  \A k \in 1..Len(errors) :
    errors[k].resolved => (errors[k].notified \/ errors[k].thrown)

\* No subscribe call on this topic was made after call i
NoSubscribeSince(i) ==
  \A u \in (i + 1)..Len(calls) :
    ~(calls[u].op = "subscribe" /\ calls[u].topic = calls[i].topic)

\* C35: when the unsubscribe request of a call fails, the call is rejected
\* and the registry stays as the call's removal left it: nothing is put back,
\* and the filter has no listener unless one was subscribed since.
C35_FailedUnsubscribeNotRolledBack ==
  [][\A i \in 1..MaxCalls :
       UnsubFail(i)
       => /\ calls'[i].st = "rejected"
          /\ toad' = toad
          /\ NoSubscribeSince(i) => UnderFilter(toad', calls[i].topic) = <<>>]_vars

\* C35 happens: an unsubscribe call that removed a listener was rejected, and
\* the filter has no listener
C35_Witness ==
  \E i \in 1..Len(calls) :
    /\ calls[i].op = "unsubscribe" /\ calls[i].st = "rejected"
    /\ calls[i].before > 0
    /\ UnderFilter(toad, calls[i].topic) = <<>>

\* C36: when no call is in flight and no request has failed, the registry
\* holds a listener under a filter exactly when the broker holds a
\* subscription for that filter.
C36_RegistryAgreesWithBroker ==
  (\A i \in 1..Len(calls) : calls[i].st # "pending" /\ calls[i].error # "Error")
  => \A f \in Filters : (UnderFilter(toad, f) # <<>>) <=> BrokerHolds(f)

\* The disconnects requested of the transport so far
Disconnects == {k \in 1..Len(frames) : frames[k].cmd = "disconnect"}

\* C37: the transport is asked to disconnect at most once, also when end()
\* is called again while an earlier end() is in flight, and every end() call
\* resolves.
C37_DisconnectOnceAndAllResolve ==
  /\ [](Cardinality(Disconnects) <= 1)
  /\ \A i \in 1..MaxCalls :
       (Len(calls) >= i /\ calls[i].op = "end" /\ calls[i].st = "pending")
         ~> (Len(calls) >= i /\ calls[i].st = "fulfilled")

\* C38: '*' in a topic or a filter is an ordinary character: a message the
\* broker forwards invokes only listeners whose filter matches its topic
\* under the rules of MQTT, and a listener is registered under the filter it
\* was subscribed with and no other.
C38_StarIsOrdinaryCharacter ==
  /\ \A t \in StarTopics :
       Forwards(t)
       => \A k \in 1..Len(Invoked(toad, t, Payload)) :
            matches(calls[Invoked(toad, t, Payload)[k].id].topic, t)
  /\ \A f \in StarFilters :
       \A k \in 1..Len(UnderFilter(toad, f)) :
         calls[UnderFilter(toad, f)[k].id].topic = f

\* C39: connect, subscribe and publish leave the opts object they are given
\* as it was: the object connect() was called with, which toadpatch keeps as
\* its base options, and the opts object of every subscribe and publish call.
C39_OptionsLeftUnchanged ==
  /\ phase \in {"connecting", "connected"} => baseOpts = connOpts
  /\ \A i \in 1..Len(calls) :
       calls[i].op \in {"subscribe", "publish"} => calls[i].left = calls[i].opts

\* C34: what a built-in decoder makes of what the encoder of the same name
\* made of a value is that value: structured values under json, strings
\* under text, byte sequences under binary and base64.
C34_DecodeInvertsEncode ==
  \A k \in 1..Len(log) : log[k].arg = log[k].value

\* The step asks the broker to unsubscribe from topic f
UnsubscribeIssued(f) ==
  \E k \in (Len(frames) + 1)..Len(frames') :
    frames'[k] = Frame("unsubscribe", f, Undefined)

\* The step removes the last listener registered under topic f
LastListenerRemoved(f) ==
  UnderFilter(toad, f) # <<>> /\ UnderFilter(toad', f) = <<>>

\* C31: in the EventEmitter-style client, the broker is asked to unsubscribe
\* from a topic exactly in the steps that remove the last listener registered
\* under it (a removeListener call, or a once() listener that has fired), and
\* 'unsuback' is emitted only for such a request.
C31_UnsubscribeExactlyWhenLastRemoved ==
  [][/\ \A f \in ProxyFilters : UnsubscribeIssued(f) <=> LastListenerRemoved(f)
     /\ \A k \in (Len(log) + 1)..Len(log') :
          log'[k].event = "unsuback"
          => /\ calls[log'[k].call].op = "unsub"
             /\ frames[calls[log'[k].call].frame].cmd = "unsubscribe"]_vars

\* C32: in the EventEmitter-style client, every 'unsuback' names a topic as
\* it was given to on() or once(): mqttify gives back what eventify was
\* given.
C32_UnsubackNamesTopicAsGiven ==
  /\ \A k \in 1..Len(log) :
       log[k].event = "unsuback"
       => \E i \in 1..Len(calls) :
            calls[i].op \in ProxyMethods /\ calls[i].topic = log[k].topic
  /\ \A i \in 1..Len(calls) :
       calls[i].op \in ProxyMethods
       => mqttify(eventify(calls[i].topic)) = calls[i].topic

\* C33: in the EventEmitter-style client, 'suback' is emitted only for an
\* on() or once() call whose subscribe the broker has accepted: for a call
\* whose subscribe failed there is an 'error' and no 'suback'.
C33_SubackOnlyOnSuccess ==
  \A i \in 1..Len(calls) :
    (calls[i].op \in ProxyMethods /\ calls[i].st = "rejected")
    => /\ \E k \in 1..Len(log) : log[k].event = "error" /\ log[k].call = i
       /\ \A k \in 1..Len(log) : ~(log[k].event = "suback" /\ log[k].call = i)

=============================================================================
